---- MODULE Spec2Model ----
(***************************************************************************)
(* Movie catalog backend (cinema): the movie listing query composer        *)
(* (search / filter / sort / paginate), the catalog mutations that feed    *)
(* it, and the rating / reaction toggles.                                  *)
(*                                                                         *)
(* Strings are sequences of one-character strings, Optional[T] is a        *)
(* sequence of length 0 (None) or 1, Decimals are integers.                *)
(***************************************************************************)
EXTENDS Integers, Sequences, FiniteSets, TLC

VARIABLES movies, nextMovieId, actors, directors, countries, genres, languages,
          ratings, reactions, req, resp,
          favourites, favourites_movies, nextFavouriteId,
          comments, nextCommentId,
          inflight, submitted, added,
          users, activation_tokens, password_reset_tokens, refresh_tokens,
          now, nextToken, issued

vars == <<movies, nextMovieId, actors, directors, countries, genres, languages,
          ratings, reactions, req, resp,
          favourites, favourites_movies, nextFavouriteId,
          comments, nextCommentId,
          inflight, submitted, added,
          users, activation_tokens, password_reset_tokens, refresh_tokens,
          now, nextToken, issued>>

\* the tables of the accounts, the clock and the tokens handed out so far
accountVars ==
    <<users, activation_tokens, password_reset_tokens, refresh_tokens, now, nextToken,
      issued>>

catalogVars == <<movies, nextMovieId, actors, directors, countries, genres, languages>>

favouriteVars == <<favourites, favourites_movies, nextFavouriteId>>

commentVars == <<comments, nextCommentId>>

\* what delete_movie leaves alone
contentVarsButLinks ==
    <<favourites, nextFavouriteId, commentVars, accountVars, inflight, submitted, added>>

\* what the handlers of the catalog, the listing and the toggles leave alone
userContentVars == <<favouriteVars, commentVars, accountVars, inflight, submitted, added>>

(***************************************************************************)
(* Bounds of the model.                                                    *)
(***************************************************************************)
MaxMovies == 3

MaxPage == 3

(***************************************************************************)
(* Optional values and small helpers.                                      *)
(***************************************************************************)
None == <<>>

Some(x) == <<x>>

Range(s) == {s[i] : i \in DOMAIN s}

Min(a, b) == IF a < b THEN a ELSE b

RECURSIVE Repeat(_, _)
Repeat(x, n) == IF n = 0 THEN <<>> ELSE <<x>> \o Repeat(x, n - 1)

RECURSIVE Concat(_)
Concat(ss) == IF ss = <<>> THEN <<>> ELSE Head(ss) \o Concat(Tail(ss))

(***************************************************************************)
(* Users.  The account tables are not written by the handlers below: the   *)
(* requests carry the token of an existing, active user of a group.        *)
(***************************************************************************)
Users == {1, 2, 3}

\* the rows of the users table: 4 is registered but not active, 5 is a
\* second member of the user group
RegisteredUsers == {1, 2, 3, 4, 5}

UserGroup ==
    [u \in RegisteredUsers |->
        CASE u \in {1, 5} -> "user" [] u = 2 -> "moderator" [] OTHER -> "admin"]

is_active == [u \in RegisteredUsers |-> u # 4]

\* who may call: 0 sends a token that does not decode, 6 a token whose user
\* is not in the table
Callers == {0, 1, 2, 3, 4, 5, 6}

\* the HTTPException get_user raises for caller c, None when it returns the user
get_user(c) ==
    IF c = 0 THEN Some(<<400, "Invalid token.">>)
    ELSE IF c \notin RegisteredUsers THEN Some(<<404, "User not found.">>)
    ELSE IF ~is_active[c] THEN Some(<<403, "User account is inactive.">>)
    ELSE None

\* user_is_staff that lets every group through
user_is_staff_any_group(u) == UserGroup[u] \in {"user", "moderator", "admin"}

user_is_staff(u) == UserGroup[u] \in {"moderator", "admin"}

(***************************************************************************)
(* Text: case-insensitive LIKE, as ilike renders it.                       *)
(***************************************************************************)
Lower(c) ==
    CASE c = "A" -> "a" [] c = "B" -> "b" [] c = "K" -> "k" [] c = "N" -> "n"
      [] OTHER -> c

LowerStr(s) == [i \in DOMAIN s |-> Lower(s[i])]

RECURSIVE Like(_, _)
Like(s, p) ==
    IF p = <<>> THEN s = <<>>
    ELSE IF Head(p) = "%" THEN Like(s, Tail(p)) \/ (s # <<>> /\ Like(Tail(s), p))
    ELSE IF s = <<>> THEN FALSE
    ELSE (Head(p) = "_" \/ Head(p) = Head(s)) /\ Like(Tail(s), Tail(p))

\* column.ilike(pattern); a NULL column (None) gives NULL, which WHERE drops
ilike(col, pattern) == col # None /\ Like(LowerStr(col[1]), LowerStr(pattern))

(***************************************************************************)
(* Request bodies of create_movie (MovieCreateSchema, already normalised). *)
(***************************************************************************)
MovieAb2020 ==
    [uuid |-> "u1", name |-> <<"A", "b">>, year |-> 2020, duration |-> 90,
     imdb |-> 7, description |-> <<"b", "a">>, budget |-> 1, revenue |-> 1,
     price |-> 5, country |-> "US", genres |-> {"Drama"},
     actors |-> {<<"K", "a">>, <<"K", "b">>},
     directors |-> {<<"N", "a">>, <<"N", "b">>}, languages |-> {"English"}]

MovieBa2020 ==
    [uuid |-> "u2", name |-> <<"B", "a">>, year |-> 2020, duration |-> 90,
     imdb |-> 8, description |-> <<"a">>, budget |-> 2, revenue |-> 1,
     price |-> 5, country |-> "US", genres |-> {"Drama"},
     actors |-> {<<"K", "a">>}, directors |-> {}, languages |-> {"English"}]

MovieAb2021 ==
    [uuid |-> "u3", name |-> <<"A", "b">>, year |-> 2021, duration |-> 100,
     imdb |-> 6, description |-> <<"b">>, budget |-> 2, revenue |-> 1,
     price |-> 3, country |-> "UA", genres |-> {"Drama"},
     actors |-> {}, directors |-> {<<"N", "k">>}, languages |-> {"English"}]

Payloads == {MovieAb2020, MovieBa2020, MovieAb2021}

\* the name and year of MovieAb2020 with another duration, uuid and relations
MovieAb2020Long ==
    [uuid |-> "u4", name |-> <<"A", "b">>, year |-> 2020, duration |-> 120,
     imdb |-> 7, description |-> <<"b">>, budget |-> 1, revenue |-> 1,
     price |-> 5, country |-> "FR", genres |-> {"Comedy"},
     actors |-> {<<"K", "c">>}, directors |-> {<<"N", "c">>},
     languages |-> {"French"}]

\* a name and year of its own with the uuid of MovieAb2020
MovieReusedUuid ==
    [uuid |-> "u1", name |-> <<"B", "b">>, year |-> 2020, duration |-> 90,
     imdb |-> 7, description |-> <<"b">>, budget |-> 1, revenue |-> 1,
     price |-> 5, country |-> "FR", genres |-> {"Comedy"},
     actors |-> {}, directors |-> {}, languages |-> {"French"}]

(***************************************************************************)
(* Query parameters of get_movie_list (MovieQueryParamsSchema).            *)
(***************************************************************************)
Searches == {None, Some(<<>>), Some(<<"k">>), Some(<<"_", "B">>)}

Years == {None, Some(2020)}

Imdbs == {None, Some(7)}

SortBys == {"name", "price", "budget", "duration"}

SortOrders == {"asc", "desc"}

\* sort_order is read only next to one of the sort columns
QueryParams ==
    {q \in [search : Searches, year : Years, imdb : Imdbs, sort_by : SortBys,
            sort_order : SortOrders] :
        q.sort_by = "name" => q.sort_order = "asc"}

DefaultParams ==
    [search |-> None, year |-> None, imdb |-> None, sort_by |-> "name",
     sort_order |-> "asc"]

Pages == 1 .. MaxPage

\* Query(ge=1) and Query(ge=1, le=20) admit no other page or per_page
PerPages == {1, 2, 20}

(***************************************************************************)
(* get_movie_list: the query composer.                                     *)
(***************************************************************************)
\* one side of an outer join: the linked names, or a single NULL
OuterSide(S) == IF S = {} THEN {None} ELSE {Some(x) : x \in S}

\* inner joins: a movie without an actor or without a director has no row
JoinRows_inner(cat) ==
    UNION {{<<m, Some(a), Some(d)>> : a \in cat[m].actors, d \in cat[m].directors}
           : m \in DOMAIN cat}

\* movies LEFT JOIN actors LEFT JOIN directors: rows <<movie id, actor name, director name>>
JoinRows(cat) ==
    UNION {{<<m, a, d>> : a \in OuterSide(cat[m].actors), d \in OuterSide(cat[m].directors)}
           : m \in DOMAIN cat}

SearchClause(cat, params, r) ==
    \* `if params.search:` an absent or empty search adds no clause
    IF params.search = None \/ params.search[1] = <<>> THEN TRUE
    ELSE LET pattern == <<"%">> \o params.search[1] \o <<"%">>
         IN  \/ ilike(Some(cat[r[1]].name), pattern)
             \/ ilike(Some(cat[r[1]].description), pattern)
             \/ ilike(r[2], pattern)
             \/ ilike(r[3], pattern)

YearClause(cat, params, r) ==
    params.year # None => cat[r[1]].year = params.year[1]

ImdbClause(cat, params, r) ==
    params.imdb # None => cat[r[1]].imdb >= params.imdb[1]

\* SELECT movies.id FROM <join> WHERE ...: a bag of ids, one occurrence per joined row
base_from(cat, params) ==
    LET rows == {r \in JoinRows(cat) :
                    /\ SearchClause(cat, params, r)
                    /\ YearClause(cat, params, r)
                    /\ ImdbClause(cat, params, r)}
    IN  [id \in {r[1] : r \in rows} |-> Cardinality({r \in rows : r[1] = id})]

\* the id query without DISTINCT
distinct_off(bag) == bag

distinct(bag) == [id \in DOMAIN bag |-> 1]

RECURSIVE BagSize(_)
BagSize(bag) ==
    IF DOMAIN bag = {} THEN 0
    ELSE LET id == CHOOSE x \in DOMAIN bag : TRUE
         IN  bag[id] + BagSize([x \in DOMAIN bag \ {id} |-> bag[x]])

\* select(func.count()).select_from(base_from.distinct().subquery())
count_stmt(cat, params) == BagSize(distinct(base_from(cat, params)))

\* floor instead of ceiling
total_pages_floor(total_items, per_page) == total_items \div per_page

total_pages_of(total_items, per_page) == (total_items + per_page - 1) \div per_page

\* a 0-based page
offset_of_page(page, per_page) == page * per_page

\* the offset counted in rows, not in pages
offset_no_scale(page, per_page) == page - 1

offset_of(page, per_page) == (page - 1) * per_page

sort_columns == {"price", "budget", "duration"}

default_order_by == <<[col |-> "id", dir |-> "desc"]>>

order_clauses(params) ==
    (IF params.sort_by \in sort_columns
        THEN <<[col |-> params.sort_by,
                dir |-> IF params.sort_order = "asc" THEN "asc" ELSE "desc"]>>
        ELSE <<>>)
    \o default_order_by

ColumnOf(cat, id, col) == IF col = "id" THEN id ELSE cat[id][col]

\* a sorts strictly before b under the ORDER BY clauses
RECURSIVE SortsBefore(_, _, _, _)
SortsBefore(cat, clauses, a, b) ==
    IF clauses = <<>> THEN FALSE
    ELSE LET c  == Head(clauses)
             va == ColumnOf(cat, a, c.col)
             vb == ColumnOf(cat, b, c.col)
         IN  IF va = vb THEN SortsBefore(cat, Tail(clauses), a, b)
             ELSE IF c.dir = "asc" THEN va < vb ELSE va > vb

RECURSIVE order_by(_, _, _)
order_by(cat, clauses, bag) ==
    IF DOMAIN bag = {} THEN <<>>
    ELSE LET first == CHOOSE x \in DOMAIN bag :
                         \A y \in DOMAIN bag : ~SortsBefore(cat, clauses, y, x)
         IN  Repeat(first, bag[first])
             \o order_by(cat, clauses, [x \in DOMAIN bag \ {first} |-> bag[x]])

offset_limit(rows, offset, limit) ==
    SubSeq(rows, offset + 1, Min(offset + limit, Len(rows)))

\* base_from.distinct().order_by(*order_clauses).offset(offset).limit(per_page)
ids_stmt(cat, params, page, per_page) ==
    offset_limit(order_by(cat, order_clauses(params), distinct(base_from(cat, params))),
                 offset_of(page, per_page), per_page)

\* case({mid: idx for idx, mid in enumerate(movie_ids)}, value=MovieModel.id)
order_by_ids(movie_ids, id) ==
    CHOOSE i \in DOMAIN movie_ids :
        movie_ids[i] = id /\ \A j \in DOMAIN movie_ids : movie_ids[j] = id => j <= i

RECURSIVE SortByCase(_, _)
SortByCase(movie_ids, S) ==
    IF S = {} THEN <<>>
    ELSE LET first == CHOOSE x \in S :
                         \A y \in S : order_by_ids(movie_ids, x) <= order_by_ids(movie_ids, y)
         IN  <<first>> \o SortByCase(movie_ids, S \ {first})

RECURSIVE Ascending(_)
Ascending(S) ==
    IF S = {} THEN <<>>
    ELSE LET first == CHOOSE x \in S : \A y \in S : x <= y
         IN  <<first>> \o Ascending(S \ {first})

\* the re-fetch without its ORDER BY: primary-key order
movies_stmt_unordered(cat, movie_ids) ==
    Ascending({id \in DOMAIN cat : id \in Range(movie_ids)})

\* select(MovieModel).where(MovieModel.id.in_(movie_ids)).order_by(order_by_ids)
movies_stmt(cat, movie_ids) ==
    SortByCase(movie_ids, {id \in DOMAIN cat : id \in Range(movie_ids)})

PageLink(page, per_page) == [page |-> page, per_page |-> per_page]

NoBody ==
    [movies |-> <<>>, prev_page |-> None, next_page |-> None, total_pages |-> 0,
     total_items |-> 0, value |-> None]

Response(handler, status, detail) ==
    [handler |-> handler, status |-> status, detail |-> detail, body |-> NoBody]

\* no page-range check
list_failure_no_range(total_items, per_page, page) ==
    IF total_items = 0 THEN Some("No movies found.") ELSE None

\* the page-range check first
list_failure_swapped(total_items, per_page, page) ==
    IF page > (total_items + per_page - 1) \div per_page THEN Some("Page out of range.")
    ELSE IF total_items = 0 THEN Some("No movies found.")
    ELSE None

\* the two 404 checks, in the order the handler makes them
list_failure(total_items, per_page, page) ==
    IF total_items = 0 THEN Some("No movies found.")
    ELSE IF page > total_pages_of(total_items, per_page) THEN Some("Page out of range.")
    ELSE None

prev_page_of(page, per_page) ==
    IF page > 1 THEN Some(PageLink(page - 1, per_page)) ELSE None

\* a next link on the last page too
next_page_of_last(page, per_page, total_pages) ==
    IF page <= total_pages THEN Some(PageLink(page + 1, per_page)) ELSE None

next_page_of(page, per_page, total_pages) ==
    IF page < total_pages THEN Some(PageLink(page + 1, per_page)) ELSE None

\* `movies` of the response carries the id of each MovieListItemSchema
get_movie_list(cat, page, per_page, params) ==
    LET total_items == count_stmt(cat, params)
        total_pages == total_pages_of(total_items, per_page)
        failure     == list_failure(total_items, per_page, page)
        movie_ids   == ids_stmt(cat, params, page, per_page)
    IN  IF failure # None
        THEN Response("get_movie_list", 404, failure[1])
        ELSE IF movie_ids = <<>>
        THEN Response("get_movie_list", 404, "No movies found.")
        ELSE [handler |-> "get_movie_list", status |-> 200, detail |-> "",
              body |-> [movies      |-> movies_stmt(cat, movie_ids),
                        prev_page   |-> prev_page_of(page, per_page),
                        next_page   |-> next_page_of(page, per_page, total_pages),
                        total_pages |-> total_pages,
                        total_items |-> total_items,
                        value       |-> None]]

(***************************************************************************)
(* Requests, as the handlers receive them.                                 *)
(***************************************************************************)
NoRequest ==
    [handler |-> "none", user |-> 0, movie_id |-> 0, page |-> 0, per_page |-> 0,
     params |-> DefaultParams, data |-> None]

Request(handler, user, movie_id, data) ==
    [handler |-> handler, user |-> user, movie_id |-> movie_id, page |-> 0,
     per_page |-> 0, params |-> DefaultParams, data |-> data]

ListRequest(page, per_page, params) ==
    [handler |-> "get_movie_list", user |-> 0, movie_id |-> 0, page |-> page,
     per_page |-> per_page, params |-> params, data |-> None]

MovieIds == 1 .. MaxMovies

\* the requests being served side by side: none, outside the interleaving study
NoneInFlight == <<>>

\* the rating values a client sent for a (user, movie) pair so far: none
NothingSubmitted == <<>>

Init ==
    /\ movies = <<>>
    /\ nextMovieId = 1
    /\ actors = {}
    /\ directors = {}
    /\ countries = {}
    /\ genres = {}
    /\ languages = {}
    /\ ratings = {}
    /\ reactions = {}
    /\ req = NoRequest
    /\ resp = Response("none", 0, "")
    /\ favourites = {}
    /\ favourites_movies = {}
    /\ nextFavouriteId = 1
    /\ comments = <<>>
    /\ nextCommentId = 1
    /\ inflight = NoneInFlight
    /\ submitted = NothingSubmitted
    /\ added = {}
    /\ users = <<>>
    /\ activation_tokens = {}
    /\ password_reset_tokens = {}
    /\ refresh_tokens = {}
    /\ now = 0
    /\ nextToken = 1
    /\ issued = {}

\* the application serves the next request once the response of this one is out
Idle == req.handler = "none"

Respond ==
    /\ ~Idle
    /\ req' = NoRequest
    /\ resp' = Response("none", 0, "")
    /\ UNCHANGED <<catalogVars, ratings, reactions, userContentVars>>

(***************************************************************************)
(* GET /movies/                                                            *)
(***************************************************************************)
ListMovies(page, per_page, params) ==
    /\ Idle
    /\ req' = ListRequest(page, per_page, params)
    /\ resp' = get_movie_list(movies, page, per_page, params)
    /\ UNCHANGED <<catalogVars, ratings, reactions>>

(***************************************************************************)
(* POST /movies/                                                           *)
(***************************************************************************)
\* MovieModel without unique_movie_constraint
MovieIntegrityError_uuid_only(cat, id, row) ==
    \E m \in DOMAIN cat \ {id} : cat[m].uuid = row.uuid

\* the constraints of MovieModel a new row can break: uuid unique,
\* (name, year, duration) unique
MovieIntegrityError(cat, id, row) ==
    \E m \in DOMAIN cat \ {id} :
        \/ cat[m].uuid = row.uuid
        \/ /\ cat[m].name = row.name
           /\ cat[m].year = row.year
           /\ cat[m].duration = row.duration

MovieRow(p) ==
    [uuid |-> p.uuid, name |-> p.name, year |-> p.year, duration |-> p.duration,
     imdb |-> p.imdb, description |-> p.description, budget |-> p.budget,
     revenue |-> p.revenue, price |-> p.price, country |-> p.country,
     genres |-> p.genres, actors |-> p.actors, directors |-> p.directors,
     languages |-> p.languages]

Insert(cat, id, row) == [m \in DOMAIN cat \cup {id} |-> IF m = id THEN row ELSE cat[m]]

\* the duplicate check taken for the table's unique constraint
existing_movie_by_constraint(cat, p) ==
    {m \in DOMAIN cat :
        cat[m].name = p.name /\ cat[m].year = p.year /\ cat[m].duration = p.duration}

\* existing_stmt: the stored movies with the name and year of the body
existing_movie(cat, p) ==
    {m \in DOMAIN cat : cat[m].name = p.name /\ cat[m].year = p.year}

\* the detail of the 409, an f-string around the name and the year
AlreadyExists(name, year) ==
    [text |-> "A movie with the name '{name}' and release year '{year}' already exists.",
     name |-> name, year |-> year]

create_movie(u, p) ==
    /\ Idle
    /\ req' = Request("create_movie", u, 0, Some(p))
    /\ IF get_user(u) # None
       THEN /\ resp' = Response("create_movie", get_user(u)[1][1], get_user(u)[1][2])
            /\ UNCHANGED <<catalogVars, ratings, reactions>>
       ELSE IF ~user_is_staff(u)
       THEN /\ resp' = Response("create_movie", 403, "You don't have permission to perform this action.")
            /\ UNCHANGED <<catalogVars, ratings, reactions>>
       ELSE IF existing_movie(movies, p) # {}
       THEN /\ resp' = Response("create_movie", 409, AlreadyExists(p.name, p.year))
            /\ UNCHANGED <<catalogVars, ratings, reactions>>
       ELSE IF MovieIntegrityError(movies, nextMovieId, MovieRow(p))
       THEN \* except IntegrityError: rollback, the flushed relations included
            /\ resp' = Response("create_movie", 400, "Invalid input data.")
            /\ UNCHANGED <<catalogVars, ratings, reactions>>
       ELSE /\ nextMovieId <= MaxMovies
            /\ countries' = countries \cup {p.country}
            /\ genres' = genres \cup p.genres
            /\ actors' = actors \cup p.actors
            /\ directors' = directors \cup p.directors
            /\ languages' = languages \cup p.languages
            /\ movies' = Insert(movies, nextMovieId, MovieRow(p))
            /\ nextMovieId' = nextMovieId + 1
            /\ resp' = Response("create_movie", 201, "")
            /\ UNCHANGED <<ratings, reactions>>

(***************************************************************************)
(* DELETE /movies/{movie_id}/                                              *)
(***************************************************************************)
\* a movie_id column that takes NULL: no row stands in the way of a delete
DependentRows_nullable(id) == {}

\* rows whose NOT NULL movie_id the unit of work would set to NULL
DependentRows(id) ==
    {r \in ratings : r.movie_id = id} \cup {r \in reactions : r.movie_id = id}

\* comments of the movie: CommentModel.movie_id is NOT NULL as well
DependentComments(id) == {k \in DOMAIN comments : comments[k].movie_id = id}

delete_movie(u, id) ==
    /\ Idle
    /\ req' = Request("delete_movie", u, id, None)
    /\ IF get_user(u) # None
       THEN /\ resp' = Response("delete_movie", get_user(u)[1][1], get_user(u)[1][2])
            /\ UNCHANGED <<catalogVars, ratings, reactions, favourites_movies>>
       ELSE IF ~user_is_staff(u)
       THEN /\ resp' = Response("delete_movie", 403, "You don't have permission to perform this action.")
            /\ UNCHANGED <<catalogVars, ratings, reactions, favourites_movies>>
       ELSE IF id \notin DOMAIN movies
       THEN /\ resp' = Response("delete_movie", 404, "Movie with the given ID was not found.")
            /\ UNCHANGED <<catalogVars, ratings, reactions, favourites_movies>>
       ELSE IF DependentRows(id) # {} \/ DependentComments(id) # {}
       THEN \* the flush fails, nothing is committed, the error is not handled
            /\ resp' = Response("delete_movie", 500, "IntegrityError")
            /\ UNCHANGED <<catalogVars, ratings, reactions, favourites_movies>>
       ELSE /\ movies' = [m \in DOMAIN movies \ {id} |-> movies[m]]
            \* the rows of the secondary tables go with the movie
            /\ favourites_movies' = {l \in favourites_movies : l.movie_id # id}
            /\ resp' = Response("delete_movie", 204, "")
            /\ UNCHANGED <<nextMovieId, actors, directors, countries, genres, languages,
                           ratings, reactions>>

(***************************************************************************)
(* PATCH /movies/{movie_id}/                                               *)
(***************************************************************************)
\* bodies of update_movie (MovieUpdateSchema): the fields the client set
Patches == {[name |-> <<"A", "b">>], [name |-> <<"B", "a">>], [year |-> 2021]}

\* an update that writes the description whether the body has it or not
ApplyPatch_clears_description(row, patch) ==
    [f \in DOMAIN row |->
        IF f \in DOMAIN patch THEN patch[f]
        ELSE IF f = "description" THEN <<>> ELSE row[f]]

\* for field, value in model_dump(exclude_unset=True).items(): setattr(...)
ApplyPatch(row, patch) ==
    [f \in DOMAIN row |-> IF f \in DOMAIN patch THEN patch[f] ELSE row[f]]

update_movie(u, id, patch) ==
    /\ Idle
    /\ req' = Request("update_movie", u, id, Some(patch))
    /\ IF get_user(u) # None
       THEN /\ resp' = Response("update_movie", get_user(u)[1][1], get_user(u)[1][2])
            /\ UNCHANGED <<catalogVars, ratings, reactions>>
       ELSE IF ~user_is_staff(u)
       THEN /\ resp' = Response("update_movie", 403, "You don't have permission to perform this action.")
            /\ UNCHANGED <<catalogVars, ratings, reactions>>
       ELSE IF id \notin DOMAIN movies
       THEN /\ resp' = Response("update_movie", 404, "Movie with the given ID was not found.")
            /\ UNCHANGED <<catalogVars, ratings, reactions>>
       ELSE IF MovieIntegrityError(movies, id, ApplyPatch(movies[id], patch))
       THEN \* except IntegrityError: rollback
            /\ resp' = Response("update_movie", 400, "Invalid input data.")
            /\ UNCHANGED <<catalogVars, ratings, reactions>>
       ELSE /\ movies' = [movies EXCEPT ![id] = ApplyPatch(movies[id], patch)]
            /\ resp' = Response("update_movie", 200, "Movie updated successfully.")
            /\ UNCHANGED <<nextMovieId, actors, directors, countries, genres, languages,
                           ratings, reactions>>

(***************************************************************************)
(* The unit of work of a request: what the store holds (stored) and what   *)
(* the request's session sees, its own pending writes included (session).  *)
(***************************************************************************)
\* where the store can fail a request that writes
StoreErrors == {"none", "execute", "commit"}

begin(db) == [stored |-> db, session |-> db]

\* a flush that makes its writes durable at once
flush_commits(uow, db) == [stored |-> db, session |-> db]

\* db.flush(): the pending writes reach the transaction, not the store
flush(uow, db) == [stored |-> uow.stored, session |-> db]

\* db.execute(insert / delete): a statement inside the transaction
execute(uow, db) == [stored |-> uow.stored, session |-> db]

commit(uow) == [stored |-> uow.session, session |-> uow.session]

rollback(uow) == [stored |-> uow.stored, session |-> uow.stored]

\* the end of the request's session: what was not committed is gone
close(uow) == uow.stored

(***************************************************************************)
(* POST, GET, DELETE /user/favourites/                                     *)
(***************************************************************************)
FavouritesDb ==
    [favourites |-> favourites, favourites_movies |-> favourites_movies,
     nextFavouriteId |-> nextFavouriteId]

\* the select without its where clause
favourites_of_any_user(db, u) == db.favourites

\* select(FavouriteModel).where(FavouriteModel.user_id == user.id)
favourites_of(db, u) == {f \in db.favourites : f.user_id = u}

FavouritesLink(favourite, movie_id) ==
    [favourite_id |-> favourite.id, movie_id |-> movie_id]

\* the response and the store at the end of add_to_favourites
add_to_favourites_outcome(db, u, id, store_error) ==
    LET found     == favourites_of(db, u)
        created   == [id |-> db.nextFavouriteId, user_id |-> u]
        favourite == IF found = {} THEN created ELSE CHOOSE f \in found : TRUE
        uow0      == begin(db)
        uow1      == IF found = {}
                     THEN flush(uow0, [db EXCEPT !.favourites = @ \cup {created},
                                                 !.nextFavouriteId = @ + 1])
                     ELSE uow0
        link      == FavouritesLink(favourite, id)
        uow2      == execute(uow1, [uow1.session EXCEPT !.favourites_movies = @ \cup {link}])
    IN  IF Cardinality(found) > 1
        THEN \* scalar_one_or_none raises MultipleResultsFound
             [status |-> 500, detail |-> "Internal Server Error", db |-> close(uow0)]
        ELSE IF link \in uow1.session.favourites_movies
        THEN [status |-> 409, detail |-> "Movie already in favourites.", db |-> close(uow1)]
        ELSE IF store_error = "execute"
        THEN [status |-> 500, detail |-> "Internal Server Error", db |-> close(uow1)]
        ELSE IF store_error = "commit"
        THEN [status |-> 500, detail |-> "Internal Server Error", db |-> close(uow2)]
        ELSE [status |-> 201, detail |-> "Movie added to favourites successfully.",
              db |-> close(commit(uow2))]

\* the response and the store at the end of remove_from_favourites
remove_from_favourites_outcome(db, u, id, store_error) ==
    LET found     == favourites_of(db, u)
        favourite == CHOOSE f \in found : TRUE
        link      == FavouritesLink(favourite, id)
        uow0      == begin(db)
        uow1      == execute(uow0, [db EXCEPT !.favourites_movies = @ \ {link}])
    IN  IF Cardinality(found) > 1
        THEN [status |-> 500, detail |-> "Internal Server Error", db |-> close(uow0)]
        ELSE IF found = {}
        THEN [status |-> 404, detail |-> "No favourites found.", db |-> close(uow0)]
        ELSE IF link \notin db.favourites_movies
        THEN [status |-> 404, detail |-> "Movie not in favourites.", db |-> close(uow0)]
        ELSE IF store_error = "execute"
        THEN [status |-> 500, detail |-> "Internal Server Error", db |-> close(uow0)]
        ELSE IF store_error = "commit"
        THEN [status |-> 500, detail |-> "Internal Server Error", db |-> close(uow1)]
        ELSE [status |-> 204, detail |-> "Movie removed successfully.",
              db |-> close(commit(uow1))]

\* a handler of the favourites routes that takes (user, movie) and writes
FavouritesWrite(handler, u, id, outcome) ==
    /\ Idle
    /\ req' = Request(handler, u, id, None)
    /\ IF get_user(u) # None
       THEN /\ resp' = Response(handler, get_user(u)[1][1], get_user(u)[1][2])
            /\ UNCHANGED favouriteVars
       ELSE IF id \notin DOMAIN movies
       THEN /\ resp' = Response(handler, 404, "Movie not found.")
            /\ UNCHANGED favouriteVars
       ELSE /\ resp' = Response(handler, outcome.status, outcome.detail)
            /\ favourites' = outcome.db.favourites
            /\ favourites_movies' = outcome.db.favourites_movies
            /\ nextFavouriteId' = outcome.db.nextFavouriteId
    /\ UNCHANGED <<catalogVars, ratings, reactions>>

add_to_favourites(u, id, store_error) ==
    FavouritesWrite("add_to_favourites", u, id,
                    add_to_favourites_outcome(FavouritesDb, u, id, store_error))

remove_from_favourites(u, id, store_error) ==
    FavouritesWrite("remove_from_favourites", u, id,
                    remove_from_favourites_outcome(FavouritesDb, u, id, store_error))

\* the movies of every container
favourite_movies_of_all(db, u) == {l.movie_id : l \in db.favourites_movies}

\* favourites.movies of the user's container, [] without one; the list has
\* no ORDER BY, so it is read as the set of its movies
favourite_movies(db, u) ==
    {l.movie_id : l \in {k \in db.favourites_movies :
                             \E f \in favourites_of(db, u) : k.favourite_id = f.id}}

get_favourites(u) ==
    /\ Idle
    /\ req' = Request("get_favourites", u, 0, None)
    /\ IF get_user(u) # None
       THEN resp' = Response("get_favourites", get_user(u)[1][1], get_user(u)[1][2])
       ELSE IF Cardinality(favourites_of(FavouritesDb, u)) > 1
       THEN resp' = Response("get_favourites", 500, "Internal Server Error")
       ELSE resp' = [handler |-> "get_favourites", status |-> 200, detail |-> "",
                     body |-> [NoBody EXCEPT !.value = Some(favourite_movies(FavouritesDb, u))]]
    /\ UNCHANGED <<catalogVars, ratings, reactions, favouriteVars>>

(***************************************************************************)
(* POST, DELETE, PUT /movies/{movie_id}/comments/                          *)
(***************************************************************************)
MaxComments == 2

CommentIds == 1 .. MaxComments

\* the dependencies of the comment routes: get_movie, then get_user
comment_dependencies(u, id) ==
    IF id \notin DOMAIN movies THEN Some(<<404, "Movie not found.">>) ELSE get_user(u)

CommentBody(comment_id, comment) == Some([comment_id |-> comment_id, comment |-> comment])

\* a comment handler whose dependencies raised
CommentRefused(handler, u, id) ==
    /\ resp' = Response(handler, comment_dependencies(u, id)[1][1],
                         comment_dependencies(u, id)[1][2])
    /\ UNCHANGED commentVars

\* comment is Optional in CommentCreateSchema, the column is NOT NULL
post_comment(u, id, comment, store_error) ==
    /\ Idle
    /\ req' = Request("post_comment", u, id, CommentBody(0, comment))
    /\ IF comment_dependencies(u, id) # None
       THEN CommentRefused("post_comment", u, id)
       ELSE IF comment = None
       THEN \* except IntegrityError: rollback
            /\ resp' = Response("post_comment", 400, "Invalid input data.")
            /\ UNCHANGED commentVars
       ELSE IF store_error # "none"
       THEN /\ resp' = Response("post_comment", 500, "Internal Server Error")
            /\ UNCHANGED commentVars
       ELSE /\ nextCommentId <= MaxComments
            /\ comments' = [c \in DOMAIN comments \cup {nextCommentId} |->
                               IF c = nextCommentId
                               THEN [user_id |-> u, movie_id |-> id, comment |-> comment[1]]
                               ELSE comments[c]]
            /\ nextCommentId' = nextCommentId + 1
            /\ resp' = Response("post_comment", 201, "")
    /\ UNCHANGED <<catalogVars, ratings, reactions>>

\* select(CommentModel).where(id == comment_id, movie_id == movie.id)
comment_of(id, comment_id) ==
    {c \in DOMAIN comments : c = comment_id /\ comments[c].movie_id = id}

\* the permission check that lets every authenticated user through
may_change_any(comment, u) == u \in RegisteredUsers

\* is_owner or is_moderator_or_admin
may_change(comment, u) ==
    comment.user_id = u \/ UserGroup[u] \in {"moderator", "admin"}

delete_comment(u, id, comment_id, store_error) ==
    /\ Idle
    /\ req' = Request("delete_comment", u, id, CommentBody(comment_id, <<>>))
    /\ IF comment_dependencies(u, id) # None
       THEN CommentRefused("delete_comment", u, id)
       ELSE IF comment_of(id, comment_id) = {}
       THEN /\ resp' = Response("delete_comment", 404, "Comment not found.")
            /\ UNCHANGED commentVars
       ELSE IF ~may_change(comments[comment_id], u)
       THEN /\ resp' = Response("delete_comment", 403, "You can't delete this comment.")
            /\ UNCHANGED commentVars
       ELSE IF store_error # "none"
       THEN /\ resp' = Response("delete_comment", 500, "Internal Server Error")
            /\ UNCHANGED commentVars
       ELSE /\ comments' = [c \in DOMAIN comments \ {comment_id} |-> comments[c]]
            /\ resp' = Response("delete_comment", 204, "")
            /\ UNCHANGED nextCommentId
    /\ UNCHANGED <<catalogVars, ratings, reactions>>

update_comment(u, id, comment_id, comment, store_error) ==
    /\ Idle
    /\ req' = Request("update_comment", u, id, CommentBody(comment_id, comment))
    /\ IF comment_dependencies(u, id) # None
       THEN CommentRefused("update_comment", u, id)
       ELSE IF comment_of(id, comment_id) = {}
       THEN /\ resp' = Response("update_comment", 404, "Comment not found.")
            /\ UNCHANGED commentVars
       ELSE IF ~may_change(comments[comment_id], u)
       THEN /\ resp' = Response("update_comment", 403, "You can't update this comment.")
            /\ UNCHANGED commentVars
       ELSE IF store_error # "none"
       THEN /\ resp' = Response("update_comment", 500, "Internal Server Error")
            /\ UNCHANGED commentVars
       ELSE /\ comments' = [comments EXCEPT ![comment_id].comment = comment]
            /\ resp' = Response("update_comment", 200, "")
            /\ UNCHANGED nextCommentId
    /\ UNCHANGED <<catalogVars, ratings, reactions>>

(***************************************************************************)
(* POST /movies/{movie_id}/ratings/ and POST /movies/{movie_id}/reactions/ *)
(***************************************************************************)
\* RatingTypeEnum(str, Enum): member values are the strings "1" .. "10";
\* the Enum column stores the member's name
RatingTypeEnum ==
    [v \in {"1", "2", "3", "4", "5", "6", "7", "8", "9", "10"} |->
        CASE v = "1" -> "ONE" [] v = "2" -> "TWO" [] v = "3" -> "THREE"
          [] v = "4" -> "FOUR" [] v = "5" -> "FIVE" [] v = "6" -> "SIX"
          [] v = "7" -> "SEVEN" [] v = "8" -> "EIGHT" [] v = "9" -> "NINE"
          [] OTHER -> "TEN"]

ReactionTypeEnum ==
    [v \in {"like", "dislike"} |-> IF v = "like" THEN "LIKE" ELSE "DISLIKE"]

\* the member whose name a stored column holds
MemberOf(enum, name) == CHOOSE v \in DOMAIN enum : enum[v] = name

\* select(Model).filter_by(movie_id=movie.id, user_id=user.id)
filter_by(table, movie_id, user_id) ==
    {r \in table : r.movie_id = movie_id /\ r.user_id = user_id}

Row(movie_id, user_id, stored) ==
    [movie_id |-> movie_id, user_id |-> user_id, value |-> stored]

\* toggle_reaction that overwrites where it should delete
reactions_after_no_delete(table, movie_id, user_id, value) ==
    (table \ filter_by(table, movie_id, user_id))
        \cup {Row(movie_id, user_id, ReactionTypeEnum[value])}

\* toggle_rating that overwrites where it should delete
ratings_after_no_delete(table, movie_id, user_id, value) ==
    (table \ filter_by(table, movie_id, user_id))
        \cup {Row(movie_id, user_id, RatingTypeEnum[value])}

\* the ratings table after the commit of toggle_rating
ratings_after(table, movie_id, user_id, value) ==
    LET found == filter_by(table, movie_id, user_id)
    IN  IF found = {}
        THEN table \cup {Row(movie_id, user_id, RatingTypeEnum[value])}
        ELSE LET rating == CHOOSE r \in found : TRUE
             IN  IF MemberOf(RatingTypeEnum, rating.value) = value
                 THEN table \ {rating}
                 ELSE (table \ {rating}) \cup {Row(movie_id, user_id, RatingTypeEnum[value])}

\* the movie_reactions table after the commit of toggle_reaction
reactions_after(table, movie_id, user_id, value) ==
    LET found == filter_by(table, movie_id, user_id)
    IN  IF found = {}
        THEN table \cup {Row(movie_id, user_id, ReactionTypeEnum[value])}
        ELSE LET reaction == CHOOSE r \in found : TRUE
             IN  IF MemberOf(ReactionTypeEnum, reaction.value) = value
                 THEN table \ {reaction}
                 ELSE (table \ {reaction}) \cup {Row(movie_id, user_id, ReactionTypeEnum[value])}

\* `rating.rating if rating else None` of the response
value_of(enum, table, movie_id, user_id) ==
    LET found == filter_by(table, movie_id, user_id)
    IN  IF found = {} THEN None
        ELSE Some(MemberOf(enum, (CHOOSE r \in found : TRUE).value))

ValueResponse(handler, detail, value) ==
    [handler |-> handler, status |-> 201, detail |-> detail,
     body |-> [NoBody EXCEPT !.value = value]]

toggle_rating(u, id, v, store_error) ==
    /\ Idle
    /\ req' = Request("toggle_rating", u, id, Some(v))
    /\ IF get_user(u) # None
       THEN /\ resp' = Response("toggle_rating", get_user(u)[1][1], get_user(u)[1][2])
            /\ UNCHANGED <<catalogVars, ratings, reactions>>
       ELSE IF id \notin DOMAIN movies
       THEN /\ resp' = Response("toggle_rating", 404, "Movie not found.")
            /\ UNCHANGED <<catalogVars, ratings, reactions>>
       ELSE IF v \notin DOMAIN RatingTypeEnum
       THEN \* RatingRequestSchema rejects the body before the handler runs
            /\ resp' = Response("toggle_rating", 422, "validation")
            /\ UNCHANGED <<catalogVars, ratings, reactions>>
       ELSE IF store_error # "none"
       THEN \* db.commit() raises, nothing catches it
            /\ resp' = Response("toggle_rating", 500, "Internal Server Error")
            /\ UNCHANGED <<catalogVars, ratings, reactions>>
       ELSE /\ ratings' = ratings_after(ratings, id, u, v)
            /\ resp' = ValueResponse("toggle_rating",
                           IF filter_by(ratings', id, u) = {}
                           THEN "Your rating was removed" ELSE "You gave this movie",
                           value_of(RatingTypeEnum, ratings', id, u))
            /\ UNCHANGED <<catalogVars, reactions>>

toggle_reaction(u, id, v, store_error) ==
    /\ Idle
    /\ req' = Request("toggle_reaction", u, id, Some(v))
    /\ IF get_user(u) # None
       THEN /\ resp' = Response("toggle_reaction", get_user(u)[1][1], get_user(u)[1][2])
            /\ UNCHANGED <<catalogVars, ratings, reactions>>
       ELSE IF id \notin DOMAIN movies
       THEN /\ resp' = Response("toggle_reaction", 404, "Movie not found.")
            /\ UNCHANGED <<catalogVars, ratings, reactions>>
       ELSE IF v \notin DOMAIN ReactionTypeEnum
       THEN \* MovieReactionRequestSchema rejects the body before the handler runs
            /\ resp' = Response("toggle_reaction", 422, "validation")
            /\ UNCHANGED <<catalogVars, ratings, reactions>>
       ELSE IF store_error # "none"
       THEN \* db.commit() raises, nothing catches it
            /\ resp' = Response("toggle_reaction", 500, "Internal Server Error")
            /\ UNCHANGED <<catalogVars, ratings, reactions>>
       ELSE /\ reactions' = reactions_after(reactions, id, u, v)
            /\ resp' = ValueResponse("toggle_reaction",
                           IF filter_by(reactions', id, u) = {}
                           THEN "Your reaction was removed" ELSE "You reacted",
                           value_of(ReactionTypeEnum, reactions', id, u))
            /\ UNCHANGED <<catalogVars, ratings>>

CreateMovie ==
    \E u \in Users, p \in Payloads : create_movie(u, p) /\ UNCHANGED userContentVars

DeleteMovie ==
    \E u \in Users, id \in MovieIds : delete_movie(u, id) /\ UNCHANGED contentVarsButLinks

GetMovieList ==
    \E page \in Pages, per_page \in PerPages, params \in QueryParams :
        ListMovies(page, per_page, params) /\ UNCHANGED userContentVars

Next ==
    \/ CreateMovie
    \/ DeleteMovie
    \/ GetMovieList
    \/ Respond

Spec == Init /\ [][Next]_vars

(***************************************************************************)
(* The catalog under create, update and delete by a user and a moderator.  *)
(***************************************************************************)
CatalogPayloads == {MovieAb2020, MovieBa2020, MovieAb2020Long, MovieReusedUuid}

CatalogUsers == {1, 2}

CreateCatalogMovie ==
    \E u \in CatalogUsers, p \in CatalogPayloads :
        create_movie(u, p) /\ UNCHANGED userContentVars

UpdateCatalogMovie ==
    \E u \in CatalogUsers, id \in MovieIds, patch \in Patches :
        update_movie(u, id, patch) /\ UNCHANGED userContentVars

DeleteCatalogMovie ==
    \E u \in CatalogUsers, id \in MovieIds :
        delete_movie(u, id) /\ UNCHANGED contentVarsButLinks

NextCatalog ==
    \/ CreateCatalogMovie
    \/ UpdateCatalogMovie
    \/ DeleteCatalogMovie
    \/ Respond

SpecCatalog == Init /\ [][NextCatalog]_vars

(***************************************************************************)
(* The catalog under every kind of caller.                                 *)
(***************************************************************************)
StaffPayloads == {MovieAb2020, MovieBa2020}

StaffPatches == {[name |-> <<"A", "b">>], [year |-> 2021]}

CreateByCaller ==
    \E c \in Callers, p \in StaffPayloads :
        create_movie(c, p) /\ UNCHANGED userContentVars

UpdateByCaller ==
    \E c \in Callers, id \in MovieIds, patch \in StaffPatches :
        update_movie(c, id, patch) /\ UNCHANGED userContentVars

DeleteByCaller ==
    \E c \in Callers, id \in MovieIds :
        delete_movie(c, id) /\ UNCHANGED contentVarsButLinks

NextStaff ==
    \/ CreateByCaller
    \/ UpdateByCaller
    \/ DeleteByCaller
    \/ Respond

SpecStaff == Init /\ [][NextStaff]_vars

(***************************************************************************)
(* Ratings and reactions on a catalog of two movies.                       *)
(***************************************************************************)
RatedPayloads == {MovieAb2020, MovieBa2020}

RatingUsers == {1, 2}

RatingInputs == {"1", "2", "12"}

ReactionInputs == {"like", "dislike", "nice"}

CreateRatedMovie ==
    \E u \in Users, p \in RatedPayloads : create_movie(u, p) /\ UNCHANGED userContentVars

ToggleRating ==
    \E u \in RatingUsers, id \in MovieIds, v \in RatingInputs :
        toggle_rating(u, id, v, "none") /\ UNCHANGED userContentVars

ToggleReaction ==
    \E u \in RatingUsers, id \in MovieIds, v \in ReactionInputs :
        toggle_reaction(u, id, v, "none") /\ UNCHANGED userContentVars

NextToggle ==
    \/ CreateRatedMovie
    \/ ToggleRating
    \/ ToggleReaction
    \/ Respond

SpecToggle == Init /\ [][NextToggle]_vars

(***************************************************************************)
(* A client's successive rating submissions for one movie, recorded per    *)
(* (user, movie) pair from the start, when the pair has no rating.         *)
(***************************************************************************)
MaxSubmits == 2

TwicePayloads == {MovieAb2020}

SubmittedBy(u, id) ==
    IF <<u, id>> \in DOMAIN submitted THEN submitted[<<u, id>>] ELSE <<>>

CreateTwiceMovie ==
    \E u \in Users, p \in TwicePayloads : create_movie(u, p) /\ UNCHANGED userContentVars

SubmitRating ==
    \E u \in RatingUsers, id \in MovieIds, v \in RatingInputs :
        /\ Len(SubmittedBy(u, id)) < MaxSubmits
        /\ toggle_rating(u, id, v, "none")
        /\ submitted' =
              IF resp'.status = 201
              THEN [k \in DOMAIN submitted \cup {<<u, id>>} |->
                        IF k = <<u, id>> THEN Append(SubmittedBy(u, id), v)
                        ELSE submitted[k]]
              ELSE submitted
        /\ UNCHANGED <<favouriteVars, commentVars, accountVars, inflight, added>>

NextTwice ==
    \/ CreateTwiceMovie
    \/ SubmitRating
    \/ Respond

SpecTwice == Init /\ [][NextTwice]_vars

(***************************************************************************)
(* Favourites of two users on a catalog of up to MaxMovies movies.         *)
(***************************************************************************)
FavouriteUsers == {1, 2}

CreateFavouriteMovie ==
    \E p \in Payloads : create_movie(3, p) /\ UNCHANGED userContentVars

\* `added` records, per client, the movies it added with a 201 and has not
\* removed with a 204 since
AddToFavourites ==
    \E u \in FavouriteUsers, id \in MovieIds :
        /\ add_to_favourites(u, id, "none")
        /\ added' = IF resp'.status = 201 THEN added \cup {<<u, id>>} ELSE added
        /\ UNCHANGED <<commentVars, accountVars, inflight, submitted>>

RemoveFromFavourites ==
    \E u \in FavouriteUsers, id \in MovieIds :
        /\ remove_from_favourites(u, id, "none")
        /\ added' = IF resp'.status = 204 THEN added \ {<<u, id>>} ELSE added
        /\ UNCHANGED <<commentVars, accountVars, inflight, submitted>>

GetFavourites ==
    \E u \in FavouriteUsers :
        get_favourites(u) /\ UNCHANGED <<commentVars, accountVars, inflight, submitted, added>>

NextFavourites ==
    \/ CreateFavouriteMovie
    \/ AddToFavourites
    \/ RemoveFromFavourites
    \/ GetFavourites
    \/ Respond

SpecFavourites == Init /\ [][NextFavourites]_vars

(***************************************************************************)
(* Comments of two users, a moderator and an admin on two movies.          *)
(***************************************************************************)
CommentUsers == {1, 2, 3, 5}

CommentedPayloads == {MovieAb2020, MovieBa2020}

NewComments == {None, Some(<<"a">>)}

EditedComments == {<<"b">>}

contentVarsButComments == <<favouriteVars, accountVars, inflight, submitted, added>>

CreateCommentedMovie ==
    \E p \in CommentedPayloads : create_movie(3, p) /\ UNCHANGED userContentVars

PostComment ==
    \E u \in CommentUsers, id \in MovieIds, comment \in NewComments :
        post_comment(u, id, comment, "none") /\ UNCHANGED contentVarsButComments

DeleteComment ==
    \E u \in CommentUsers, id \in MovieIds, comment_id \in CommentIds :
        delete_comment(u, id, comment_id, "none") /\ UNCHANGED contentVarsButComments

UpdateComment ==
    \E u \in CommentUsers, id \in MovieIds, comment_id \in CommentIds,
       comment \in EditedComments :
        update_comment(u, id, comment_id, comment, "none")
            /\ UNCHANGED contentVarsButComments

NextComments ==
    \/ CreateCommentedMovie
    \/ PostComment
    \/ DeleteComment
    \/ UpdateComment
    \/ Respond

SpecComments == Init /\ [][NextComments]_vars

(***************************************************************************)
(* Toggles served side by side.  A request reads the row of its (user,     *)
(* movie) pair (lines 72-74), decides what to write (76-92), and commits   *)
(* (94); another request may commit between its read and its commit.       *)
(***************************************************************************)
MaxInFlight == 2

Slots == 1 .. MaxInFlight

RaceUsers == {1}

RaceMovieIds == {1}

RacePayloads == {MovieAb2020}

RaceInputs ==
    [toggle_rating |-> {"1", "2"}, toggle_reaction |-> {"like"}]

EnumOf(handler) ==
    IF handler = "toggle_rating" THEN RatingTypeEnum ELSE ReactionTypeEnum

TableOf(handler) == IF handler = "toggle_rating" THEN ratings ELSE reactions

\* the tables without unique_user_movie_rating / unique_user_movie_reaction
unique_user_movie_off(table, movie_id, user_id) == FALSE

\* UniqueConstraint("user_id", "movie_id"): an INSERT for the pair is refused
unique_user_movie(table, movie_id, user_id) == filter_by(table, movie_id, user_id) # {}

\* the request after lines 66-92: what it read and so what it will write
Reading(handler, u, id, v, table) ==
    LET found == filter_by(table, id, u)
    IN  [handler |-> handler, user |-> u, movie_id |-> id, value |-> v,
         pc |-> "commit",
         found |-> IF found = {} THEN None ELSE Some((CHOOSE r \in found : TRUE).value),
         stale |-> FALSE, status |-> 0, detail |-> ""]

Answered(handler, u, id, v, status, detail) ==
    [handler |-> handler, user |-> u, movie_id |-> id, value |-> v, pc |-> "done",
     found |-> None, stale |-> FALSE, status |-> status, detail |-> detail]

\* a new request takes the first free slot
ReadToggle(slot, handler, u, id, v) ==
    /\ slot \notin DOMAIN inflight
    /\ \A free \in Slots \ DOMAIN inflight : slot <= free
    /\ inflight' =
          [k \in DOMAIN inflight \cup {slot} |->
              IF k # slot THEN inflight[k]
              ELSE IF get_user(u) # None
              THEN Answered(handler, u, id, v, get_user(u)[1][1], get_user(u)[1][2])
              ELSE IF id \notin DOMAIN movies
              THEN Answered(handler, u, id, v, 404, "Movie not found.")
              ELSE Reading(handler, u, id, v, TableOf(handler))]
    /\ UNCHANGED <<catalogVars, ratings, reactions, req, resp, favouriteVars,
                   commentVars, accountVars, submitted, added>>

\* db.commit() of the request in `slot`: the table after it and the answer
CommitOutcome(r, table) ==
    LET row     == Row(r.movie_id, r.user, EnumOf(r.handler)[r.value])
        current == filter_by(table, r.movie_id, r.user)
    IN  IF r.found = None
        THEN IF unique_user_movie(table, r.movie_id, r.user)
             THEN [table |-> table, status |-> 500, detail |-> "IntegrityError",
                   deleted |-> FALSE]
             ELSE [table |-> table \cup {row}, status |-> 201, detail |-> "",
                   deleted |-> FALSE]
        ELSE IF MemberOf(EnumOf(r.handler), r.found[1]) = r.value
        THEN \* DELETE by primary key; no row matched is a warning only
             [table |-> IF r.stale THEN table ELSE table \ current,
              status |-> 201, detail |-> "", deleted |-> ~r.stale]
        ELSE IF r.stale
        THEN \* UPDATE by primary key matched no row
             [table |-> table, status |-> 500, detail |-> "StaleDataError",
              deleted |-> FALSE]
        ELSE [table |-> (table \ current) \cup {row}, status |-> 201, detail |-> "",
              deleted |-> FALSE]

CommitToggle(slot) ==
    /\ slot \in DOMAIN inflight
    /\ inflight[slot].pc = "commit"
    /\ LET r   == inflight[slot]
           out == CommitOutcome(r, TableOf(r.handler))
       IN  /\ IF r.handler = "toggle_rating"
              THEN ratings' = out.table /\ UNCHANGED reactions
              ELSE reactions' = out.table /\ UNCHANGED ratings
           /\ inflight' =
                 [k \in DOMAIN inflight |->
                     IF k = slot
                     THEN [r EXCEPT !.pc = "done", !.status = out.status,
                                    !.detail = out.detail]
                     ELSE IF /\ out.deleted
                             /\ inflight[k].handler = r.handler
                             /\ inflight[k].movie_id = r.movie_id
                             /\ inflight[k].user = r.user
                             /\ inflight[k].found # None
                     THEN [inflight[k] EXCEPT !.stale = TRUE]
                     ELSE inflight[k]]
    /\ UNCHANGED <<catalogVars, req, resp, favouriteVars, commentVars, accountVars, submitted, added>>

\* the response of the request in `slot` is out
Deliver(slot) ==
    /\ slot \in DOMAIN inflight
    /\ inflight[slot].pc = "done"
    /\ inflight' = [k \in DOMAIN inflight \ {slot} |-> inflight[k]]
    /\ UNCHANGED <<catalogVars, ratings, reactions, req, resp, favouriteVars,
                   commentVars, accountVars, submitted, added>>

CreateRacedMovie ==
    \E p \in RacePayloads : create_movie(3, p) /\ UNCHANGED userContentVars

ReadRating ==
    \E slot \in Slots, u \in RaceUsers, id \in RaceMovieIds,
       v \in RaceInputs.toggle_rating :
        ReadToggle(slot, "toggle_rating", u, id, v)

ReadReaction ==
    \E slot \in Slots, u \in RaceUsers, id \in RaceMovieIds,
       v \in RaceInputs.toggle_reaction :
        ReadToggle(slot, "toggle_reaction", u, id, v)

Commit == \E slot \in Slots : CommitToggle(slot)

DeliverResponse == \E slot \in Slots : Deliver(slot)

NextRace ==
    \/ CreateRacedMovie
    \/ ReadRating
    \/ ReadReaction
    \/ Commit
    \/ DeliverResponse
    \/ Respond

SpecRace == Init /\ [][NextRace]_vars

(***************************************************************************)
(* The write handlers with a store that can refuse a statement or a        *)
(* commit.                                                                 *)
(***************************************************************************)
FailurePayloads == {MovieAb2020, MovieBa2020, MovieReusedUuid}

FailurePatches == {[name |-> <<"A", "b">>]}

FailureStaff == 3

FailureUsers == {1}

FailureMovieIds == {1}

CreateOrFail ==
    \E p \in FailurePayloads : create_movie(FailureStaff, p) /\ UNCHANGED userContentVars

UpdateOrFail ==
    \E id \in MovieIds, patch \in FailurePatches :
        update_movie(FailureStaff, id, patch) /\ UNCHANGED userContentVars

DeleteOrFail ==
    \E id \in MovieIds : delete_movie(FailureStaff, id) /\ UNCHANGED contentVarsButLinks

RateOrFail ==
    \E u \in FailureUsers, id \in FailureMovieIds, store_error \in StoreErrors :
        toggle_rating(u, id, "1", store_error) /\ UNCHANGED userContentVars

ReactOrFail ==
    \E u \in FailureUsers, id \in FailureMovieIds, store_error \in StoreErrors :
        toggle_reaction(u, id, "like", store_error) /\ UNCHANGED userContentVars

AddFavouriteOrFail ==
    \E u \in FailureUsers, id \in FailureMovieIds, store_error \in StoreErrors :
        /\ add_to_favourites(u, id, store_error)
        /\ UNCHANGED <<commentVars, accountVars, inflight, submitted, added>>

RemoveFavouriteOrFail ==
    \E u \in FailureUsers, id \in FailureMovieIds, store_error \in StoreErrors :
        /\ remove_from_favourites(u, id, store_error)
        /\ UNCHANGED <<commentVars, accountVars, inflight, submitted, added>>

PostCommentOrFail ==
    \E u \in FailureUsers, id \in FailureMovieIds, comment \in NewComments,
       store_error \in StoreErrors :
        post_comment(u, id, comment, store_error) /\ UNCHANGED contentVarsButComments

DeleteCommentOrFail ==
    \E u \in FailureUsers, id \in FailureMovieIds, comment_id \in CommentIds,
       store_error \in StoreErrors :
        delete_comment(u, id, comment_id, store_error)
            /\ UNCHANGED contentVarsButComments

UpdateCommentOrFail ==
    \E u \in FailureUsers, id \in FailureMovieIds, comment_id \in CommentIds,
       comment \in EditedComments, store_error \in StoreErrors :
        update_comment(u, id, comment_id, comment, store_error)
            /\ UNCHANGED contentVarsButComments

NextFailure ==
    \/ CreateOrFail
    \/ UpdateOrFail
    \/ DeleteOrFail
    \/ RateOrFail
    \/ ReactOrFail
    \/ AddFavouriteOrFail
    \/ RemoveFavouriteOrFail
    \/ PostCommentOrFail
    \/ DeleteCommentOrFail
    \/ UpdateCommentOrFail
    \/ Respond

SpecFailure == Init /\ [][NextFailure]_vars

(***************************************************************************)
(* Accounts: registration, activation, login and refresh tokens, password  *)
(* reset.  A user is known by the stored (lower-case) email; the clock     *)
(* counts days.                                                            *)
(***************************************************************************)
MaxTokens == 4

MaxTime == 3

\* timedelta(hours=24), in days; the other tokens are given the same life
TokenTtl == 1

Emails == {"a", "A", "b"}

Passwords == {"p", "q"}

\* BaseEmailPasswordSchema.validate_email: value.lower()
validate_email(value) == Lower(value)

\* UserModel.password (setter): what is stored for a raw password
hash_password(raw) == <<"hash", raw>>

\* UserModel.verify_password
verify_password(user, raw) == user.password = hash_password(raw)

TokenRow(token, user, expires_at) ==
    [token |-> token, user |-> user, expires_at |-> expires_at]

\* a comparison that never finds a token expired
is_expired_never(expires_at) == FALSE

\* expires_at < datetime.now(timezone.utc)
is_expired(expires_at) == expires_at < now

\* what the account handlers leave alone
nonAccountVars ==
    <<catalogVars, ratings, reactions, favouriteVars, commentVars, inflight, submitted,
      added>>

AccountRequest(handler, data) == Request(handler, 0, 0, Some(data))

\* a response that carries tokens
TokenResponse(handler, status, tokens) ==
    [handler |-> handler, status |-> status, detail |-> "",
     body |-> [NoBody EXCEPT !.value = Some(tokens)]]

Tick ==
    /\ Idle
    /\ now < MaxTime
    /\ now' = now + 1
    /\ UNCHANGED <<users, activation_tokens, password_reset_tokens, refresh_tokens,
                   nextToken, issued, req, resp, nonAccountVars>>

(***************************************************************************)
(* POST /register/                                                         *)
(***************************************************************************)
register_user(email, password) ==
    /\ Idle
    /\ req' = AccountRequest("register_user", [email |-> email, password |-> password])
    /\ LET e == validate_email(email)
       IN  IF e \in DOMAIN users
           THEN /\ resp' = Response("register_user", 409, "A user with this email already exists.")
                /\ UNCHANGED <<users, activation_tokens, nextToken>>
           ELSE /\ nextToken <= MaxTokens
                /\ users' = [u \in DOMAIN users \cup {e} |->
                                IF u = e
                                THEN [password |-> hash_password(password),
                                      is_active |-> FALSE]
                                ELSE users[u]]
                /\ activation_tokens' =
                      activation_tokens \cup {TokenRow(nextToken, e, now + TokenTtl)}
                /\ nextToken' = nextToken + 1
                /\ resp' = Response("register_user", 201, "")
    /\ UNCHANGED <<password_reset_tokens, refresh_tokens, now, issued>>

(***************************************************************************)
(* POST /activate/                                                         *)
(***************************************************************************)
\* select(ActivationTokenModel).join(UserModel).where(email, token)
activation_token_of(email, token) ==
    {t \in activation_tokens : t.user = email /\ t.token = token}

activate_account(email, token) ==
    /\ Idle
    /\ req' = AccountRequest("activate_account", [email |-> email, token |-> token])
    /\ LET found == activation_token_of(email, token)
           token_record == CHOOSE t \in found : TRUE
       IN  IF found = {}
           THEN /\ resp' = Response("activate_account", 400,
                                     "Invalid or expired activation token.")
                /\ UNCHANGED <<users, activation_tokens, nextToken>>
           ELSE IF users[token_record.user].is_active
           THEN /\ resp' = Response("activate_account", 400,
                                     "User account is already active.")
                /\ UNCHANGED <<users, activation_tokens, nextToken>>
           ELSE IF is_expired(token_record.expires_at)
           THEN /\ nextToken <= MaxTokens
                /\ activation_tokens' =
                      (activation_tokens \ {token_record})
                          \cup {TokenRow(nextToken, token_record.user, now + TokenTtl)}
                /\ nextToken' = nextToken + 1
                /\ resp' = Response("activate_account", 200,
                                     "New activation token was sent to user.")
                /\ UNCHANGED users
           ELSE /\ users' = [users EXCEPT ![token_record.user].is_active = TRUE]
                /\ activation_tokens' = activation_tokens \ {token_record}
                /\ resp' = Response("activate_account", 200,
                                     "User account activated successfully.")
                /\ UNCHANGED nextToken
    /\ UNCHANGED <<password_reset_tokens, refresh_tokens, now, issued>>

(***************************************************************************)
(* POST /users/{user_id}/activate/ (admin)                                 *)
(***************************************************************************)
activate_user(c, email) ==
    /\ Idle
    /\ req' = Request("activate_user", c, 0, Some([email |-> email]))
    /\ IF get_user(c) # None
       THEN /\ resp' = Response("activate_user", get_user(c)[1][1], get_user(c)[1][2])
            /\ UNCHANGED users
       ELSE IF UserGroup[c] # "admin"
       THEN /\ resp' = Response("activate_user", 403,
                                 "You don't have permission to perform this action.")
            /\ UNCHANGED users
       ELSE IF email \notin DOMAIN users
       THEN /\ resp' = Response("activate_user", 404, "User not found.")
            /\ UNCHANGED users
       ELSE IF users[email].is_active
       THEN /\ resp' = Response("activate_user", 200, "User is already active.")
            /\ UNCHANGED users
       ELSE /\ users' = [users EXCEPT ![email].is_active = TRUE]
            /\ resp' = Response("activate_user", 200, "User has been activated.")
    /\ UNCHANGED <<activation_tokens, password_reset_tokens, refresh_tokens, now,
                   nextToken, issued>>

(***************************************************************************)
(* POST /password-reset/request/                                           *)
(***************************************************************************)
ResetRequested == "If you are registered, you will receive an email with instructions."

\* a handler that tells the client the account is unknown
reset_request_message_telling(known) ==
    IF known THEN ResetRequested ELSE "User not found."

reset_request_message(known) == ResetRequested

request_password_reset_token(email) ==
    /\ Idle
    /\ req' = AccountRequest("request_password_reset_token", [email |-> email])
    /\ IF email \notin DOMAIN users \/ ~users[email].is_active
       THEN /\ resp' = Response("request_password_reset_token", 200,
                                 reset_request_message(FALSE))
            /\ UNCHANGED <<password_reset_tokens, nextToken>>
       ELSE /\ nextToken <= MaxTokens
            /\ password_reset_tokens' =
                  {t \in password_reset_tokens : t.user # email}
                      \cup {TokenRow(nextToken, email, now + TokenTtl)}
            /\ nextToken' = nextToken + 1
            /\ resp' = Response("request_password_reset_token", 200,
                                 reset_request_message(TRUE))
    /\ UNCHANGED <<users, activation_tokens, refresh_tokens, now, issued>>

(***************************************************************************)
(* POST /reset-password/complete/                                          *)
(***************************************************************************)
\* select(PasswordResetTokenModel).filter_by(user_id=user.id)
reset_tokens_of(e) == {t \in password_reset_tokens : t.user = e}

\* a failed attempt that keeps the stored token
tokens_after_failed_reset_kept(tokens, token_record) == tokens

\* db.delete(token_record); db.commit() of a refused attempt
tokens_after_failed_reset(tokens, token_record) == tokens \ {token_record}

reset_password(email, token, password) ==
    /\ Idle
    /\ req' = AccountRequest("reset_password",
                             [email |-> email, token |-> token, password |-> password])
    /\ LET e == validate_email(email)
           found == reset_tokens_of(e)
           token_record == CHOOSE t \in found : TRUE
       IN  IF e \notin DOMAIN users \/ ~users[e].is_active
           THEN /\ resp' = Response("reset_password", 400, "Invalid email or token.")
                /\ UNCHANGED <<users, password_reset_tokens>>
           ELSE IF found = {}
           THEN /\ resp' = Response("reset_password", 400, "Invalid email or token.")
                /\ UNCHANGED <<users, password_reset_tokens>>
           ELSE IF token_record.token # token \/ is_expired(token_record.expires_at)
           THEN /\ password_reset_tokens' =
                      tokens_after_failed_reset(password_reset_tokens, token_record)
                /\ resp' = Response("reset_password", 400, "Invalid email or token.")
                /\ UNCHANGED users
           ELSE /\ users' = [users EXCEPT ![e].password = hash_password(password)]
                /\ password_reset_tokens' = password_reset_tokens \ {token_record}
                /\ resp' = Response("reset_password", 200, "Password reset successfully.")
    /\ UNCHANGED <<activation_tokens, refresh_tokens, now, nextToken, issued>>

(***************************************************************************)
(* POST /login/, /logout/, /refresh/                                       *)
(***************************************************************************)
\* jwt_manager.create_refresh_token({"user_id": user.id}): the claims of the token
create_refresh_token(user, n) == [user |-> user, exp |-> now + TokenTtl, n |-> n]

\* a token the application never signed
ForgedToken == [user |-> "a", exp |-> MaxTime + TokenTtl, n |-> 0]

\* jwt_manager.decode_refresh_token: the error it raises, None when it decodes
decode_refresh_token(token) ==
    IF token \notin issued THEN Some("Invalid token.")
    ELSE IF is_expired(token.exp) THEN Some("Token has expired.")
    ELSE None

\* a login that lets accounts in before they are activated
login_refusal_without_activation(e, password) ==
    IF e \notin DOMAIN users \/ ~verify_password(users[e], password)
    THEN Some(<<401, "Invalid email or password.">>)
    ELSE None

\* the HTTPException login_user raises before it issues anything, or None
login_refusal(e, password) ==
    IF e \notin DOMAIN users \/ ~verify_password(users[e], password)
    THEN Some(<<401, "Invalid email or password.">>)
    ELSE IF ~users[e].is_active
    THEN Some(<<403, "User account is not activated.">>)
    ELSE None

login_user(email, password) ==
    /\ Idle
    /\ req' = AccountRequest("login_user", [email |-> email, password |-> password])
    /\ LET e == validate_email(email)
           jwt_refresh_token == create_refresh_token(e, nextToken)
       IN  IF login_refusal(e, password) # None
           THEN /\ resp' = Response("login_user", login_refusal(e, password)[1][1],
                                     login_refusal(e, password)[1][2])
                /\ UNCHANGED <<refresh_tokens, nextToken, issued>>
           ELSE /\ nextToken <= MaxTokens
                /\ refresh_tokens' =
                      refresh_tokens \cup {[token |-> jwt_refresh_token, user |-> e]}
                /\ issued' = issued \cup {jwt_refresh_token}
                /\ nextToken' = nextToken + 1
                /\ resp' = TokenResponse("login_user", 201,
                               [access_token |-> Some(e),
                                refresh_token |-> Some(jwt_refresh_token)])
    /\ UNCHANGED <<users, activation_tokens, password_reset_tokens, now>>

\* a lookup that takes the token's own word for it
refresh_token_record_unchecked(token) == {[token |-> token, user |-> token.user]}

\* select(RefreshTokenModel).filter_by(token=...)
refresh_token_record(token) == {r \in refresh_tokens : r.token = token}

logout_user(token) ==
    /\ Idle
    /\ req' = AccountRequest("logout_user", [refresh_token |-> token])
    /\ IF decode_refresh_token(token) # None
       THEN /\ resp' = Response("logout_user", 400, decode_refresh_token(token)[1])
            /\ UNCHANGED refresh_tokens
       ELSE IF refresh_token_record(token) = {}
       THEN /\ resp' = Response("logout_user", 404, "Refresh token not found.")
            /\ UNCHANGED refresh_tokens
       ELSE IF token.user \notin DOMAIN users
       THEN /\ resp' = Response("logout_user", 404, "User not found.")
            /\ UNCHANGED refresh_tokens
       ELSE /\ refresh_tokens' = refresh_tokens \ refresh_token_record(token)
            /\ resp' = Response("logout_user", 200, "Logged out successfully.")
    /\ UNCHANGED <<users, activation_tokens, password_reset_tokens, now, nextToken,
                   issued>>

refresh_access_token(token) ==
    /\ Idle
    /\ req' = AccountRequest("refresh_access_token", [refresh_token |-> token])
    /\ IF decode_refresh_token(token) # None
       THEN resp' = Response("refresh_access_token", 400, decode_refresh_token(token)[1])
       ELSE IF refresh_token_record(token) = {}
       THEN resp' = Response("refresh_access_token", 401, "Refresh token not found.")
       ELSE IF token.user \notin DOMAIN users
       THEN resp' = Response("refresh_access_token", 404, "User not found.")
       ELSE resp' = TokenResponse("refresh_access_token", 200,
                        [access_token |-> Some(token.user), refresh_token |-> None])
    /\ UNCHANGED accountVars

(***************************************************************************)
(* The account routes, with the clock.                                     *)
(***************************************************************************)
\* tokens a client can send: those handed out so far and one never issued
ClientTokens == 0 .. MaxTokens

AccountAdmin == 3

Register ==
    \E email \in Emails, password \in Passwords :
        register_user(email, password) /\ UNCHANGED nonAccountVars

Activate ==
    \E email \in Emails, token \in ClientTokens :
        activate_account(email, token) /\ UNCHANGED nonAccountVars

ActivateByAdmin ==
    \E email \in Emails : activate_user(AccountAdmin, email) /\ UNCHANGED nonAccountVars

RequestPasswordReset ==
    \E email \in Emails :
        request_password_reset_token(email) /\ UNCHANGED nonAccountVars

ResetPassword ==
    \E email \in Emails, token \in ClientTokens, password \in Passwords :
        reset_password(email, token, password) /\ UNCHANGED nonAccountVars

Login ==
    \E email \in Emails, password \in Passwords :
        login_user(email, password) /\ UNCHANGED nonAccountVars

Logout ==
    \E token \in issued \cup {ForgedToken} :
        logout_user(token) /\ UNCHANGED nonAccountVars

Refresh ==
    \E token \in issued \cup {ForgedToken} :
        refresh_access_token(token) /\ UNCHANGED nonAccountVars

\* registration, activation and the sessions of the users
NextSession ==
    \/ Register
    \/ Activate
    \/ Login
    \/ Logout
    \/ Refresh
    \/ Tick
    \/ Respond

SpecSession == Init /\ [][NextSession]_vars

\* registration and the two ways to activate an account
NextActivation ==
    \/ Register
    \/ Activate
    \/ ActivateByAdmin
    \/ Tick
    \/ Respond

SpecActivation == Init /\ [][NextActivation]_vars

\* registered users who forget their passwords
NextReset ==
    \/ Register
    \/ ActivateByAdmin
    \/ RequestPasswordReset
    \/ ResetPassword
    \/ Tick
    \/ Respond

SpecReset == Init /\ [][NextReset]_vars

(***************************************************************************)
(* Partial updates by a staff user.                                        *)
(***************************************************************************)
PatchedPayloads == {MovieAb2020, MovieBa2020}

PatchBodies ==
    {[name |-> <<"A", "b">>], [year |-> 2021],
     [description |-> <<"c">>, budget |-> 3]}

PatchStaff == 2

CreatePatchedMovie ==
    \E p \in PatchedPayloads : create_movie(PatchStaff, p) /\ UNCHANGED userContentVars

PatchMovie ==
    \E id \in MovieIds, patch \in PatchBodies :
        update_movie(PatchStaff, id, patch) /\ UNCHANGED userContentVars

NextPatch ==
    \/ CreatePatchedMovie
    \/ PatchMovie
    \/ Respond

SpecPatch == Init /\ [][NextPatch]_vars

(***************************************************************************)
(* GET /movies/ served beside DELETE /movies/{id}/: the listing runs its   *)
(* count, its page of identifiers and its re-fetch as three statements,    *)
(* each reading the rows committed when it runs.                           *)
(***************************************************************************)
ListingSlot == 1

ListingStaff == 3

ListedPayloads == {MovieAb2020, MovieBa2020, MovieAb2021}

ListingPages == {1, 2}

ListingPerPages == {1, 2}

Listing(page, per_page, pc, total_items, movie_ids, status, detail, found) ==
    [handler |-> "get_movie_list", page |-> page, per_page |-> per_page, pc |-> pc,
     total_items |-> total_items,
     total_pages |-> total_pages_of(total_items, per_page),
     movie_ids |-> movie_ids, status |-> status, detail |-> detail, movies |-> found]

\* count_stmt and the two 404 checks on its result
CountListing(page, per_page) ==
    /\ ListingSlot \notin DOMAIN inflight
    /\ LET total_items == count_stmt(movies, DefaultParams)
           failure     == list_failure(total_items, per_page, page)
       IN  inflight' =
              [k \in DOMAIN inflight \cup {ListingSlot} |->
                  IF k # ListingSlot THEN inflight[k]
                  ELSE IF failure # None
                  THEN Listing(page, per_page, "done", total_items, <<>>, 404,
                               failure[1], <<>>)
                  ELSE Listing(page, per_page, "ids", total_items, <<>>, 0, "", <<>>)]
    /\ UNCHANGED <<catalogVars, ratings, reactions, req, resp, favouriteVars,
                   commentVars, accountVars, submitted, added>>

\* ids_stmt and the check that the page holds an identifier
PageIdsOfListing ==
    /\ ListingSlot \in DOMAIN inflight
    /\ inflight[ListingSlot].pc = "ids"
    /\ LET r         == inflight[ListingSlot]
           movie_ids == ids_stmt(movies, DefaultParams, r.page, r.per_page)
       IN  inflight' =
              [inflight EXCEPT ![ListingSlot] =
                  IF movie_ids = <<>>
                  THEN [r EXCEPT !.pc = "done", !.status = 404,
                                 !.detail = "No movies found."]
                  ELSE [r EXCEPT !.pc = "fetch", !.movie_ids = movie_ids]]
    /\ UNCHANGED <<catalogVars, ratings, reactions, req, resp, favouriteVars,
                   commentVars, accountVars, submitted, added>>

\* movies_stmt and the response built from its rows
FetchListing ==
    /\ ListingSlot \in DOMAIN inflight
    /\ inflight[ListingSlot].pc = "fetch"
    /\ LET r == inflight[ListingSlot]
       IN  inflight' =
              [inflight EXCEPT ![ListingSlot] =
                  [r EXCEPT !.pc = "done", !.status = 200,
                            !.movies = movies_stmt(movies, r.movie_ids)]]
    /\ UNCHANGED <<catalogVars, ratings, reactions, req, resp, favouriteVars,
                   commentVars, accountVars, submitted, added>>

StartListing ==
    \E page \in ListingPages, per_page \in ListingPerPages : CountListing(page, per_page)

CreateListedMovie ==
    \E p \in ListedPayloads : create_movie(ListingStaff, p) /\ UNCHANGED userContentVars

DeleteListedMovie ==
    \E id \in MovieIds : delete_movie(ListingStaff, id) /\ UNCHANGED contentVarsButLinks

NextListingRace ==
    \/ CreateListedMovie
    \/ DeleteListedMovie
    \/ StartListing
    \/ PageIdsOfListing
    \/ FetchListing
    \/ DeliverResponse
    \/ Respond

SpecListingRace == Init /\ [][NextListingRace]_vars

(***************************************************************************)
(* POST /user/favourites/ of one user served side by side: a request looks *)
(* its container up, flushes a new one when it found none, and commits     *)
(* after another request may have done the same.                           *)
(***************************************************************************)
RacedFavouriteUsers == {1}

RacedFavouriteMovieIds == {1, 2}

RacedFavouritePayloads == {MovieAb2020, MovieBa2020}

FavouriteRequest(u, id, pc, favourite, pending, status, detail) ==
    [handler |-> "add_to_favourites", user |-> u, movie_id |-> id, pc |-> pc,
     favourite |-> favourite, pending |-> pending, status |-> status,
     detail |-> detail]

NoFavourite == [id |-> 0, user_id |-> 0]

\* add_to_favourites up to its exists query: the lookup of the container in
\* the committed rows, and the flush of a new one into the transaction
FavouriteLookup(db, u, id) ==
    LET found     == favourites_of(db, u)
        created   == [id |-> db.nextFavouriteId, user_id |-> u]
        favourite == IF found = {} THEN created ELSE CHOOSE f \in found : TRUE
    IN  IF get_user(u) # None
        THEN FavouriteRequest(u, id, "done", NoFavourite, FALSE,
                              get_user(u)[1][1], get_user(u)[1][2])
        ELSE IF id \notin DOMAIN movies
        THEN FavouriteRequest(u, id, "done", NoFavourite, FALSE, 404, "Movie not found.")
        ELSE IF Cardinality(found) > 1
        THEN FavouriteRequest(u, id, "done", NoFavourite, FALSE, 500,
                              "Internal Server Error")
        ELSE IF FavouritesLink(favourite, id) \in db.favourites_movies
        THEN FavouriteRequest(u, id, "done", favourite, FALSE, 409,
                              "Movie already in favourites.")
        ELSE FavouriteRequest(u, id, "commit", favourite, found = {}, 0, "")

\* FavouriteModel: the primary key is its only constraint
favourite_constraints(table, row) == \A f \in table : f.id # row.id

ReadFavourite(slot, u, id) ==
    /\ slot \notin DOMAIN inflight
    /\ \A free \in Slots \ DOMAIN inflight : slot <= free
    /\ LET r == FavouriteLookup(FavouritesDb, u, id)
       IN  /\ inflight' =
                 [k \in DOMAIN inflight \cup {slot} |->
                     IF k = slot THEN r ELSE inflight[k]]
           /\ nextFavouriteId' = IF r.pending THEN nextFavouriteId + 1
                                 ELSE nextFavouriteId
    /\ UNCHANGED <<catalogVars, ratings, reactions, req, resp, favourites,
                   favourites_movies, commentVars, accountVars, submitted, added>>

\* the insert of the link and db.commit(): the flushed container and the
\* link become visible together, or the store refuses them
CommitFavourite(slot) ==
    /\ slot \in DOMAIN inflight
    /\ inflight[slot].handler = "add_to_favourites"
    /\ inflight[slot].pc = "commit"
    /\ LET r      == inflight[slot]
           link   == FavouritesLink(r.favourite, r.movie_id)
           stored == /\ r.pending => favourite_constraints(favourites, r.favourite)
                     /\ link \notin favourites_movies
       IN  IF stored
           THEN /\ favourites' = IF r.pending THEN favourites \cup {r.favourite}
                                 ELSE favourites
                /\ favourites_movies' = favourites_movies \cup {link}
                /\ inflight' =
                      [inflight EXCEPT ![slot] =
                          [r EXCEPT !.pc = "done", !.status = 201,
                                    !.detail = "Movie added to favourites successfully."]]
           ELSE /\ UNCHANGED <<favourites, favourites_movies>>
                /\ inflight' =
                      [inflight EXCEPT ![slot] =
                          [r EXCEPT !.pc = "done", !.status = 500,
                                    !.detail = "IntegrityError"]]
    /\ UNCHANGED <<catalogVars, ratings, reactions, req, resp, nextFavouriteId,
                   commentVars, accountVars, submitted, added>>

CreateRacedFavouriteMovie ==
    \E p \in RacedFavouritePayloads : create_movie(3, p) /\ UNCHANGED userContentVars

StartAddToFavourites ==
    \E slot \in Slots, u \in RacedFavouriteUsers, id \in RacedFavouriteMovieIds :
        ReadFavourite(slot, u, id)

CommitAddToFavourites == \E slot \in Slots : CommitFavourite(slot)

GetRacedFavourites ==
    \E u \in RacedFavouriteUsers :
        get_favourites(u) /\ UNCHANGED <<commentVars, accountVars, inflight, submitted, added>>

RemoveRacedFavourite ==
    \E u \in RacedFavouriteUsers, id \in RacedFavouriteMovieIds :
        /\ remove_from_favourites(u, id, "none")
        /\ UNCHANGED <<commentVars, accountVars, inflight, submitted, added>>

NextFavouriteRace ==
    \/ CreateRacedFavouriteMovie
    \/ StartAddToFavourites
    \/ CommitAddToFavourites
    \/ DeliverResponse
    \/ GetRacedFavourites
    \/ RemoveRacedFavourite
    \/ Respond

SpecFavouriteRace == Init /\ [][NextFavouriteRace]_vars

(***************************************************************************)
(* The listing, as its contract states it.                                 *)
(***************************************************************************)
Listed == req.handler = "get_movie_list" /\ resp.handler = "get_movie_list"

ListedOk == Listed /\ resp.status = 200

Searching(params) == params.search # None /\ params.search[1] # <<>>

SearchPattern(params) == <<"%">> \o params.search[1] \o <<"%">>

MatchesOwnText(m, params) ==
    \/ ilike(Some(movies[m].name), SearchPattern(params))
    \/ ilike(Some(movies[m].description), SearchPattern(params))

MatchesCast(m, params) ==
    \/ \E a \in movies[m].actors : ilike(Some(a), SearchPattern(params))
    \/ \E d \in movies[m].directors : ilike(Some(d), SearchPattern(params))

PassesYearImdb(m, params) ==
    /\ params.year # None => movies[m].year = params.year[1]
    /\ params.imdb # None => movies[m].imdb >= params.imdb[1]

\* the distinct movies that satisfy the filters
Satisfying(params) ==
    {m \in DOMAIN movies :
        /\ Searching(params) => MatchesOwnText(m, params) \/ MatchesCast(m, params)
        /\ PassesYearImdb(m, params)}

\* a comes before b in the requested order: sort column first, then id descending
Precedes(a, b, params) ==
    IF params.sort_by \in {"price", "budget", "duration"}
       /\ movies[a][params.sort_by] # movies[b][params.sort_by]
    THEN IF params.sort_order = "asc"
         THEN movies[a][params.sort_by] < movies[b][params.sort_by]
         ELSE movies[a][params.sort_by] > movies[b][params.sort_by]
    ELSE a > b

\* 1-based position of m in the filtered movies `sat`, sorted as requested
RankOf(sat, m, params) ==
    1 + Cardinality({x \in sat : Precedes(x, m, params)})

\* the movies of page q of the request at hand
PageOf(q) == get_movie_list(movies, q, req.per_page, req.params).body.movies

\* pages 1 .. total_pages of the request at hand
Pagination == [q \in 1 .. resp.body.total_pages |-> PageOf(q)]

Occurrences(seq, x) == Cardinality({i \in DOMAIN seq : seq[i] = x})

\* C1: total_items of a listing is the number of distinct movies that satisfy
\* the search, year and imdb filters; a movie with several actors or
\* directors counts once.
C1_TotalItemsCountsDistinctMovies ==
    ListedOk => resp.body.total_items = Cardinality(Satisfying(req.params))

C1_Witness ==
    /\ ListedOk
    /\ Searching(req.params)
    /\ \E m \in Satisfying(req.params) :
          /\ Cardinality(movies[m].actors) >= 2
          /\ Cardinality(movies[m].directors) >= 2
    /\ Cardinality(Satisfying(req.params)) >= 2
    /\ req.params.year # None
    /\ req.params.imdb # None

\* C2: a successful listing returns min(per_page, total_items - (page-1)*per_page)
\* movies.
C2_PageLength ==
    ListedOk =>
        Len(resp.body.movies)
            = Min(req.per_page, resp.body.total_items - (req.page - 1) * req.per_page)

C2_Witness ==
    /\ ListedOk
    /\ req.page = 2
    /\ req.per_page = 2
    /\ resp.body.total_items = 3
    /\ Len(resp.body.movies) = 1

\* C3: total_pages is the ceiling of total_items / per_page: the least number
\* of pages of per_page movies that hold total_items movies.
C3_TotalPagesIsCeiling ==
    ListedOk =>
        LET matching == Cardinality(Satisfying(req.params))
        IN  /\ resp.body.total_pages * req.per_page >= matching
            /\ (resp.body.total_pages - 1) * req.per_page < matching

C3_Witness ==
    /\ ListedOk
    /\ req.per_page = 2
    /\ Cardinality(Satisfying(req.params)) = 3
    /\ resp.body.total_pages = 2
    /\ Searching(req.params)

C5_PageBeyondLastIsOutOfRange ==
    Listed =>
        LET matching == Cardinality(Satisfying(req.params))
        IN  /\ (matching > 0 /\ (req.page - 1) * req.per_page >= matching)
                  => resp.status = 404 /\ resp.detail = "Page out of range."
            /\ resp.status = 200 => resp.body.movies # <<>>

C5_Witness ==
    /\ Listed
    /\ req.page = 3
    /\ req.per_page = 2
    /\ Cardinality(Satisfying(req.params)) = 3
    /\ resp.status = 404
    /\ resp.detail = "Page out of range."

\* C6: the empty-result check comes first: with no matching movie every page
\* is answered 404 'No movies found.', and 'Page out of range.' is answered
\* only when some movie matches.
C6_EmptyResultCheckedFirst ==
    Listed =>
        LET sat == Satisfying(req.params)
        IN  /\ sat = {} => resp.status = 404 /\ resp.detail = "No movies found."
            /\ resp.detail = "Page out of range." => sat # {}

C6_Witness ==
    /\ Listed
    /\ req.page > 1
    /\ movies # <<>>
    /\ Satisfying(req.params) = {}
    /\ resp.status = 404
    /\ resp.detail = "No movies found."

C8_PrevNextLinks ==
    ListedOk =>
        /\ resp.body.prev_page = None <=> req.page = 1
        /\ req.page > 1 => resp.body.prev_page = Some(PageLink(req.page - 1, req.per_page))
        /\ resp.body.next_page = None <=> req.page = resp.body.total_pages
        /\ req.page # resp.body.total_pages
              => resp.body.next_page = Some(PageLink(req.page + 1, req.per_page))

C8_Witness ==
    /\ ListedOk
    /\ req.per_page = 2
    /\ req.page = 2
    /\ resp.body.total_pages = 2
    /\ Len(resp.body.movies) = 1
    /\ resp.body.next_page = None
    /\ resp.body.prev_page = Some(PageLink(1, 2))

\* C9: a movie that the search matches through an actor's or director's name
\* only, not through its own name or description, is on exactly one page and
\* once there, however many actors and directors it has; no page repeats a
\* movie id.  (The count over the pages is stated where page 1 was answered.)
C9_CastOnlyMatchListedOnce ==
    (ListedOk /\ Searching(req.params)) =>
        /\ req.page = 1 =>
              LET all == Concat(Pagination)
              IN  \A m \in DOMAIN movies :
                      ( /\ ~MatchesOwnText(m, req.params)
                        /\ MatchesCast(m, req.params)
                        /\ PassesYearImdb(m, req.params) )
                      => Occurrences(all, m) = 1
        /\ \A m \in DOMAIN movies : Occurrences(resp.body.movies, m) <= 1

C9_Witness ==
    /\ ListedOk
    /\ req.page = 1
    /\ Searching(req.params)
    /\ \E m \in Range(resp.body.movies) :
          /\ ~MatchesOwnText(m, req.params)
          /\ Cardinality({a \in movies[m].actors : ilike(Some(a), SearchPattern(req.params))}) >= 2
          /\ Cardinality(movies[m].directors) >= 2
    /\ \E m \in Range(resp.body.movies) :
          /\ ~MatchesOwnText(m, req.params)
          /\ movies[m].directors = {}

(***************************************************************************)
(* The toggles, as their contract states them.                             *)
(***************************************************************************)
\* the values a table holds for (user, movie)
ValuesHeld(enum, table, movie_id, user_id) ==
    {v \in DOMAIN enum : Row(movie_id, user_id, enum[v]) \in table}

\* a step in which `handler` runs on an existing movie with a value of enum
ToggleStep(handler, enum) ==
    /\ Idle
    /\ req'.handler = handler
    /\ req'.movie_id \in DOMAIN movies
    /\ req'.data[1] \in DOMAIN enum

ToggleLaw(enum, before, after) ==
    LET m   == req'.movie_id
        u   == req'.user
        v   == req'.data[1]
        old == ValuesHeld(enum, before, m, u)
        new == ValuesHeld(enum, after, m, u)
    IN  /\ resp'.status = 201
        /\ old = {} => new = {v}
        /\ old = {v} => new = {}
        /\ (old # {} /\ old # {v}) => new = {v}
        /\ resp'.body.value = (IF new = {} THEN None ELSE Some(v))
        /\ \A r \in before \cup after :
              (r.movie_id # m \/ r.user_id # u) => (r \in before <=> r \in after)
        /\ Cardinality(filter_by(after, m, u)) <= 1

\* C10: toggle_rating and toggle_reaction are one three-way toggle keyed by
\* (user, movie): no stored value -> the submitted value is created; the same
\* value stored -> it is deleted; another value stored -> it is overwritten.
\* Each call answers 201 with the resulting value (null after a delete), and
\* leaves every other key and the other table alone.
C10_ThreeWayToggle ==
    [][ /\ ToggleStep("toggle_rating", RatingTypeEnum)
            => ToggleLaw(RatingTypeEnum, ratings, ratings') /\ reactions' = reactions
        /\ ToggleStep("toggle_reaction", ReactionTypeEnum)
            => ToggleLaw(ReactionTypeEnum, reactions, reactions') /\ ratings' = ratings
      ]_vars

C10_Witness ==
    /\ resp.handler = "toggle_reaction"
    /\ resp.status = 201
    /\ resp.body.value = None
    /\ filter_by(reactions, req.movie_id, req.user) = {}
    /\ \E r \in reactions : r.movie_id = req.movie_id /\ r.user_id # req.user
    /\ \E r \in reactions : r.movie_id # req.movie_id /\ r.user_id = req.user
    /\ \E r \in ratings :
          /\ r.movie_id = req.movie_id
          /\ r.user_id = req.user
          /\ r.value = RatingTypeEnum["2"]

\* C11: for one (user, movie) pair that starts with no rating, the same value
\* submitted twice in succession leaves no rating stored, and a value A
\* followed by a different value B leaves exactly one rating, with value B.
C11_TwiceRemovesThenOtherOverwrites ==
    \A u \in RatingUsers, id \in DOMAIN movies :
        LET s == SubmittedBy(u, id)
        IN  Len(s) = 2 =>
              IF s[1] = s[2]
              THEN filter_by(ratings, id, u) = {}
              ELSE filter_by(ratings, id, u) = {Row(id, u, RatingTypeEnum[s[2]])}

C11_Witness ==
    /\ SubmittedBy(1, 1) = <<"1", "1">>
    /\ SubmittedBy(2, 1) = <<"1", "2">>
    /\ ratings = {Row(1, 2, "TWO")}

\* a step in which `handler` runs on an existing movie with a value outside enum
InvalidValueStep(handler, enum) ==
    /\ Idle
    /\ req'.handler = handler
    /\ req'.movie_id \in DOMAIN movies
    /\ req'.data[1] \notin DOMAIN enum

\* C12: a rating outside 1..10, or a reaction that is neither like nor
\* dislike, is answered 400 and creates, changes or deletes no rating or
\* reaction.
C12_InvalidValueIs400 ==
    [][ ( \/ InvalidValueStep("toggle_rating", RatingTypeEnum)
          \/ InvalidValueStep("toggle_reaction", ReactionTypeEnum) )
        => /\ resp'.status = 400
           /\ ratings' = ratings
           /\ reactions' = reactions
      ]_vars

(***************************************************************************)
(* The catalog mutations, as their contract states them.                   *)
(***************************************************************************)
\* a step in which create_movie runs for an active moderator or admin
CreateByStaff ==
    /\ Idle
    /\ req'.handler = "create_movie"
    /\ get_user(req'.user) = None
    /\ UserGroup[req'.user] \in {"moderator", "admin"}

SameNameYear(p) == {m \in DOMAIN movies : movies[m].name = p.name /\ movies[m].year = p.year}

\* 201, and the movie is stored under a new id next to the movies there were
Created(p) ==
    /\ resp'.status = 201
    /\ \A m \in DOMAIN movies : m \in DOMAIN movies' /\ movies'[m] = movies[m]
    /\ \E m \in DOMAIN movies' \ DOMAIN movies :
          /\ DOMAIN movies' = DOMAIN movies \cup {m}
          /\ movies'[m].name = p.name
          /\ movies'[m].year = p.year
          /\ movies'[m].uuid = p.uuid

\* 409 naming the name and the year, and nothing is added
Refused(p) ==
    /\ resp'.status = 409
    /\ resp'.detail.name = p.name
    /\ resp'.detail.year = p.year
    /\ UNCHANGED <<movies, countries, genres, actors, directors, languages>>

\* C13 as stated: create_movie by staff for a (name, year) no stored movie has
\* returns 201 and stores the movie; for a (name, year) some stored movie has
\* it returns 409 naming both and adds nothing.
C13_CreateThenConflict ==
    [][ CreateByStaff =>
          LET p == req'.data[1]
          IN  IF SameNameYear(p) = {} THEN Created(p) ELSE Refused(p)
      ]_vars

\* C13, amended: create_movie by staff for a (name, year) and a uuid that no
\* stored movie has returns 201 and stores the movie; for a (name, year) some
\* stored movie has it returns 409 naming both and adds no movie, country,
\* genre, actor, director or language.
C13_CreateFreshThenConflict ==
    [][ CreateByStaff =>
          LET p == req'.data[1]
          IN  /\ (SameNameYear(p) = {} /\ \A m \in DOMAIN movies : movies[m].uuid # p.uuid)
                    => Created(p)
              /\ SameNameYear(p) # {} => Refused(p)
      ]_vars

C13_Witness ==
    /\ req.handler = "create_movie"
    /\ req.data = Some(MovieAb2020Long)
    /\ resp.status = 409
    /\ \E m \in DOMAIN movies : movies[m].uuid = MovieAb2020.uuid /\ movies[m].duration = 90
    /\ MovieAb2020Long.country \notin countries
    /\ MovieAb2020Long.actors \cap actors = {}

SameTriple(a, b) == a.name = b.name /\ a.year = b.year /\ a.duration = b.duration

NoSharedTriple(cat) ==
    \A a, b \in DOMAIN cat : a # b => ~SameTriple(cat[a], cat[b])

\* a step in which update_movie runs for an active moderator or admin on a
\* stored movie, with a body that gives it the triple of another stored movie
UpdateOntoOther ==
    /\ Idle
    /\ req'.handler = "update_movie"
    /\ get_user(req'.user) = None
    /\ UserGroup[req'.user] \in {"moderator", "admin"}
    /\ req'.movie_id \in DOMAIN movies
    /\ \E m \in DOMAIN movies \ {req'.movie_id} :
          SameTriple(ApplyPatch(movies[req'.movie_id], req'.data[1]), movies[m])

\* C14: after any sequence of create_movie, update_movie and delete_movie no
\* two stored movies share a (name, year, duration) triple; an update_movie
\* that would produce such a pair fails with 400 and leaves the movies
\* unchanged.
C14_TripleStaysUnique ==
    [][ /\ NoSharedTriple(movies')
        /\ UpdateOntoOther => resp'.status = 400 /\ movies' = movies
      ]_vars

C14_Witness ==
    /\ req.handler = "update_movie"
    /\ resp.status = 400
    /\ req.data = Some([name |-> <<"A", "b">>])
    /\ req.movie_id \in DOMAIN movies
    /\ movies[req.movie_id].name = <<"B", "a">>
    /\ \E m \in DOMAIN movies :
          /\ movies[m].name = <<"A", "b">>
          /\ movies[m].year = movies[req.movie_id].year
          /\ movies[m].duration = movies[req.movie_id].duration
    /\ \E a, b \in DOMAIN movies :
          a # b /\ movies[a].name = movies[b].name /\ movies[a].year = movies[b].year

(***************************************************************************)
(* The favourites, as their contract states them.                          *)
(***************************************************************************)
\* a step in which `handler` runs for an authenticated user on a stored movie
FavouritesStep(handler) ==
    /\ Idle
    /\ req'.handler = handler
    /\ get_user(req'.user) = None
    /\ req'.movie_id \in DOMAIN movies

HasContainer(u) == \E f \in favourites : f.user_id = u

Linked(containers, links, u, id) ==
    \E f \in containers :
        f.user_id = u /\ [favourite_id |-> f.id, movie_id |-> id] \in links

InFavourites(u, id) == Linked(favourites, favourites_movies, u, id)

\* C15: for an authenticated user and a stored movie, add_to_favourites
\* returns 201 when the movie is not in the user's favourites and 409 when it
\* is, with the favourites unchanged on 409; remove_from_favourites returns
\* 204 when the movie is in the favourites and 404 when the user has no
\* container or the movie is not in it, with the favourites unchanged on 404.
C15_FavouritesStatusCodes ==
    [][ /\ FavouritesStep("add_to_favourites") =>
              IF InFavourites(req'.user, req'.movie_id)
              THEN resp'.status = 409 /\ UNCHANGED <<favourites, favourites_movies>>
              ELSE /\ resp'.status = 201
                   /\ Linked(favourites', favourites_movies', req'.user, req'.movie_id)
        /\ FavouritesStep("remove_from_favourites") =>
              IF InFavourites(req'.user, req'.movie_id)
              THEN /\ resp'.status = 204
                   /\ ~Linked(favourites', favourites_movies', req'.user, req'.movie_id)
              ELSE resp'.status = 404 /\ UNCHANGED <<favourites, favourites_movies>>
      ]_vars

C15_Witness ==
    /\ req.handler = "remove_from_favourites"
    /\ resp.status = 404
    /\ resp.detail = "Movie not in favourites."
    /\ HasContainer(req.user)
    /\ \E id \in DOMAIN movies : InFavourites(req.user, id)
    /\ \E u \in FavouriteUsers : ~HasContainer(u)

AddedBy(u) == {id \in MovieIds : <<u, id>> \in added}

\* C16: after any sequence of successful add_to_favourites and
\* remove_from_favourites calls, the favourites of a user, and what
\* get_favourites returns for that user, are exactly the movies the user added
\* and has not since removed (an empty list if none): a removal leaves the
\* user's other favourites and the favourites of other users in place.
C16_FavouritesAreAddedMinusRemoved ==
    /\ \A u \in FavouriteUsers : {id \in MovieIds : InFavourites(u, id)} = AddedBy(u)
    /\ (req.handler = "get_favourites" /\ resp.status = 200)
          => resp.body.value = Some(AddedBy(req.user))

C16_Witness ==
    /\ req.handler = "remove_from_favourites"
    /\ resp.status = 204
    /\ AddedBy(req.user) # {}
    /\ req.movie_id \notin AddedBy(req.user)
    /\ \E u \in FavouriteUsers : u # req.user /\ req.movie_id \in AddedBy(u)

(***************************************************************************)
(* The comments, as their contract states them.                            *)
(***************************************************************************)
\* a step in which delete_comment or update_comment runs for an authenticated
\* user on a stored movie
CommentChangeStep ==
    /\ Idle
    /\ req'.handler \in {"delete_comment", "update_comment"}
    /\ get_user(req'.user) = None
    /\ req'.movie_id \in DOMAIN movies

ExistsUnder(comment_id, id) ==
    comment_id \in DOMAIN comments /\ comments[comment_id].movie_id = id

AuthorOrStaff(comment_id, u) ==
    comments[comment_id].user_id = u \/ UserGroup[u] \in {"moderator", "admin"}

\* C20: delete_comment and update_comment change a comment only when the
\* caller is its author or a moderator or admin; any other user gets 403 and
\* the comment stays as it is; a comment id that does not exist under the
\* given movie gets 404.
C20_CommentChangeNeedsAuthorOrStaff ==
    [][ CommentChangeStep =>
          LET u   == req'.user
              cid == req'.data[1].comment_id
          IN  /\ ~ExistsUnder(cid, req'.movie_id)
                    => resp'.status = 404 /\ comments' = comments
              /\ (ExistsUnder(cid, req'.movie_id) /\ ~AuthorOrStaff(cid, u))
                    => resp'.status = 403 /\ comments' = comments
              /\ comments' # comments
                    => /\ ExistsUnder(cid, req'.movie_id)
                       /\ AuthorOrStaff(cid, u)
                       /\ \A c \in DOMAIN comments \ {cid} :
                             c \in DOMAIN comments' /\ comments'[c] = comments[c]
      ]_vars

C20_Witness ==
    /\ req.handler = "update_comment"
    /\ resp.status = 403
    /\ UserGroup[req.user] = "user"
    /\ req.data[1].comment_id \in DOMAIN comments
    /\ comments[req.data[1].comment_id].user_id # req.user
    /\ UserGroup[comments[req.data[1].comment_id].user_id] = "user"
    /\ comments[req.data[1].comment_id].comment = <<"b">>
    /\ \E c \in DOMAIN comments : comments[c].movie_id # req.movie_id

\* a step in which one of the catalog mutations runs
CatalogMutationStep ==
    /\ Idle
    /\ req'.handler \in {"create_movie", "update_movie", "delete_movie"}

ActiveUser(c) == c \in RegisteredUsers /\ is_active[c]

\* C19: create_movie, update_movie and delete_movie take effect only for an
\* authenticated, active user whose group is moderator or admin; for a user
\* of any other group the request ends with 403 and the catalog (movies and
\* related entities) is unchanged.
C19_CatalogMutationsAreStaffOnly ==
    [][ CatalogMutationStep =>
          /\ ~UNCHANGED catalogVars
                => /\ ActiveUser(req'.user)
                   /\ UserGroup[req'.user] \in {"moderator", "admin"}
          /\ (ActiveUser(req'.user) /\ UserGroup[req'.user] \notin {"moderator", "admin"})
                => resp'.status = 403 /\ UNCHANGED catalogVars
      ]_vars

C19_Witness ==
    /\ req.handler = "delete_movie"
    /\ req.user = 1
    /\ resp.status = 403
    /\ req.movie_id \in DOMAIN movies
    /\ \E m \in DOMAIN movies : movies[m].year = 2021

(***************************************************************************)
(* The toggles under interleaving.                                         *)
(***************************************************************************)
AtMostOnePerPair(table) ==
    \A r1, r2 \in table :
        (r1.movie_id = r2.movie_id /\ r1.user_id = r2.user_id) => r1 = r2

\* the request in slot k read 'absent', and commits now that the pair has a row
LosingCommit(k) ==
    /\ k \in DOMAIN inflight
    /\ inflight[k].pc = "commit"
    /\ inflight[k].found = None
    /\ filter_by(TableOf(inflight[k].handler), inflight[k].movie_id, inflight[k].user) # {}
    /\ inflight'[k].pc = "done"

\* C18: when two submissions for one (user, movie) pair both read 'absent'
\* before either commits, at most one row is stored and the losing request
\* ends in a constraint violation of the store; under every interleaving
\* there is at most one rating and one reaction per (user, movie).
C18_RaceEndsInConstraintViolation ==
    [][ /\ AtMostOnePerPair(ratings') /\ AtMostOnePerPair(reactions')
        /\ \A k \in Slots :
              LosingCommit(k) =>
                  /\ inflight'[k].status = 500
                  /\ inflight'[k].detail = "IntegrityError"
                  /\ ratings' = ratings
                  /\ reactions' = reactions
      ]_vars

C18_Witness ==
    /\ DOMAIN inflight = {1, 2}
    /\ inflight[1].handler = "toggle_rating" /\ inflight[2].handler = "toggle_rating"
    /\ inflight[1].movie_id = inflight[2].movie_id
    /\ inflight[1].user = inflight[2].user
    /\ inflight[1].found = None /\ inflight[2].found = None
    /\ inflight[1].value = "1" /\ inflight[2].value = "2"
    /\ inflight[1].status = 500 /\ inflight[1].detail = "IntegrityError"
    /\ inflight[2].status = 201
    /\ ratings = {Row(inflight[2].movie_id, inflight[2].user, "TWO")}

(***************************************************************************)
(* Persistence failures.                                                   *)
(***************************************************************************)
Tables ==
    <<movies, actors, directors, countries, genres, languages, ratings, reactions,
      favourites, favourites_movies, comments>>

\* a write handler answers now, and its answer is a failure of the store:
\* the unhandled error (500) or the handled IntegrityError (400)
PersistenceFailureStep ==
    /\ Idle
    /\ ~Idle'
    /\ \/ resp'.status = 500
       \/ resp'.status = 400 /\ resp'.detail = "Invalid input data."

DeleteByStaffStep ==
    /\ Idle
    /\ req'.handler = "delete_movie"
    /\ get_user(req'.user) = None
    /\ user_is_staff(req'.user)

\* C21: delete_movie by a staff user on a stored movie answers 204 and the
\* movie is gone, whatever comments, ratings, reactions or favourites refer
\* to it; on an id with no movie it answers 404 'Movie with the given ID was
\* not found.' and changes nothing.
C21_DeleteRemovesOutright ==
    [][DeleteByStaffStep =>
          IF req'.movie_id \in DOMAIN movies
          THEN /\ resp'.status = 204
               /\ req'.movie_id \notin DOMAIN movies'
          ELSE /\ resp'.status = 404
               /\ resp'.detail = "Movie with the given ID was not found."
               /\ Tables' = Tables
      ]_vars

(***************************************************************************)
(* Partial updates.                                                        *)
(***************************************************************************)
\* update_movie runs its body: the caller passed user_is_staff
UpdateStep ==
    /\ Idle
    /\ req'.handler = "update_movie"
    /\ get_user(req'.user) = None
    /\ UserGroup[req'.user] \in {"moderator", "admin"}

\* the movie of the request has the body's fields set and nothing else differs
PatchApplied ==
    LET id    == req'.movie_id
        patch == req'.data[1]
    IN  /\ DOMAIN movies' = DOMAIN movies
        /\ \A m \in DOMAIN movies \ {id} : movies'[m] = movies[m]
        /\ \A f \in DOMAIN movies[id] :
              movies'[id][f] = IF f \in DOMAIN patch THEN patch[f] ELSE movies[id][f]

UpdateOfMissing ==
    /\ resp'.status = 404
    /\ Tables' = Tables

\* the movie with the body's fields set would repeat the (name, year,
\* duration) of another stored movie
PatchRepeatsTriple ==
    LET id    == req'.movie_id
        patch == req'.data[1]
    IN  \E m \in DOMAIN movies \ {id} :
            /\ movies[m].duration = movies[id].duration
            /\ movies[m].name = IF "name" \in DOMAIN patch THEN patch.name
                                                            ELSE movies[id].name
            /\ movies[m].year = IF "year" \in DOMAIN patch THEN patch.year
                                                            ELSE movies[id].year

StoredRecords(table, token) == {r \in table : r.token = token}

\* refresh tokens the application issued and whose record is gone
LoggedOut == {t \in issued : StoredRecords(refresh_tokens, t) = {}}

LogoutStep == Idle /\ req'.handler = "logout_user"

RefreshStep == Idle /\ req'.handler = "refresh_access_token"

SentToken == req'.data[1].refresh_token

IssuesAccessToken == resp'.status = 200 /\ resp'.body.value # None

\* a record of an issued token goes away only in a logout that succeeds
RecordsGoByLogout ==
    \A t \in issued :
        (StoredRecords(refresh_tokens, t) # {} /\ StoredRecords(refresh_tokens', t) = {})
            => (LogoutStep /\ SentToken = t /\ resp'.status = 200)

LogoutDeletesRecord ==
    (LogoutStep /\ resp'.status = 200) => StoredRecords(refresh_tokens', SentToken) = {}

RefreshNeedsRecordAndUser ==
    (RefreshStep /\ IssuesAccessToken)
        => /\ StoredRecords(refresh_tokens, SentToken) # {}
           /\ SentToken.user \in DOMAIN users

\* C23 as stated: after a logout that succeeds the token's record is deleted
\* and every later refresh_access_token with that token fails with 401
\* 'Refresh token not found.' and issues no access token; an access token is
\* issued only while the record is stored and its user exists.
C23_LoggedOutTokenIs401 ==
    [][ /\ RecordsGoByLogout
        /\ LogoutDeletesRecord
        /\ RefreshNeedsRecordAndUser
        /\ (RefreshStep /\ SentToken \in LoggedOut)
              => /\ resp'.status = 401
                 /\ resp'.detail = "Refresh token not found."
                 /\ ~IssuesAccessToken
      ]_vars

\* C23, amended: the same, but the later refresh fails with 401 'Refresh
\* token not found.' only until the token itself expires; from then on it
\* fails with 400.
C23_LoggedOutTokenIsRefused ==
    [][ /\ RecordsGoByLogout
        /\ LogoutDeletesRecord
        /\ RefreshNeedsRecordAndUser
        /\ (RefreshStep /\ SentToken \in LoggedOut)
              => /\ IF SentToken.exp < now
                    THEN resp'.status = 400
                    ELSE /\ resp'.status = 401
                         /\ resp'.detail = "Refresh token not found."
                 /\ ~IssuesAccessToken
      ]_vars

C23_Witness ==
    /\ req.handler = "refresh_access_token"
    /\ resp.status = 401
    /\ req.data[1].refresh_token \in LoggedOut
    /\ req.data[1].refresh_token.user \in DOMAIN users

LoginStep == Idle /\ req'.handler = "login_user"

\* the stored user of the login's email, if its password is the given one
LoginVerifies ==
    LET e == Lower(req'.data[1].email)
    IN  /\ e \in DOMAIN users
        /\ users[e].password = hash_password(req'.data[1].password)

LoginOfActive == LoginVerifies /\ users[Lower(req'.data[1].email)].is_active

\* C24: login_user issues an access and a refresh token and stores a
\* refresh-token record only for an existing user whose password verifies
\* and whose account is active; an unknown email or a wrong password gets
\* 401, a correct password on an inactive account 403, and neither stores a
\* refresh-token record.
C24_LoginOnlyForActiveVerifiedUser ==
    [][ /\ refresh_tokens' \subseteq refresh_tokens \/ (LoginStep /\ LoginOfActive)
        /\ LoginStep =>
              IF ~LoginVerifies
              THEN /\ resp'.status = 401
                   /\ resp'.body.value = None
                   /\ refresh_tokens' = refresh_tokens
              ELSE IF ~LoginOfActive
              THEN /\ resp'.status = 403
                   /\ resp'.body.value = None
                   /\ refresh_tokens' = refresh_tokens
              ELSE /\ resp'.status = 201
                   /\ resp'.body.value # None
                   /\ resp'.body.value[1].access_token # None
                   /\ refresh_tokens' =
                         refresh_tokens \cup
                             {[token |-> resp'.body.value[1].refresh_token[1],
                               user |-> Lower(req'.data[1].email)]}
                   /\ refresh_tokens' # refresh_tokens
      ]_vars

\* a correct password on an account that is not active yet, after a login
\* of another account went through
C24_Witness ==
    /\ req.handler = "login_user"
    /\ resp.status = 403
    /\ refresh_tokens # {}
    /\ \A r \in refresh_tokens : r.user # Lower(req.data[1].email)

(***************************************************************************)
(* Activation tokens.                                                      *)
(***************************************************************************)
ActivateStep == Idle /\ req'.handler = "activate_account"

\* the stored activation tokens the request's email and token match
MatchingTokens ==
    {t \in activation_tokens :
        t.user = req'.data[1].email /\ t.token = req'.data[1].token}

\* C25: activate_account with an email and token that match a stored,
\* unexpired token of an inactive user sets the user active and deletes the
\* token; with a matching but expired token of an inactive user the user
\* stays inactive and the token is replaced by a newly issued one; a token
\* that was used matches nothing afterwards: the later request with it
\* fails with 400 and changes nothing.
C25_ActivationTokenIsSingleUse ==
    [][ /\ \A new \in activation_tokens' \ activation_tokens :
              new.token \notin 1 .. (nextToken - 1) /\ new.token < nextToken'
        /\ ActivateStep =>
          IF MatchingTokens = {}
          THEN /\ resp'.status = 400
               /\ UNCHANGED accountVars
          ELSE \A t \in MatchingTokens :
                 IF users[t.user].is_active
                 THEN resp'.status = 400 /\ UNCHANGED accountVars
                 ELSE IF t.expires_at < now
                 THEN /\ users' = users
                      /\ \E new \in activation_tokens' \ activation_tokens :
                            /\ new.user = t.user
                            /\ new.token \notin {old.token : old \in activation_tokens}
                            /\ ~(new.expires_at < now)
                            /\ activation_tokens' = (activation_tokens \ {t}) \cup {new}
                 ELSE /\ users' = [users EXCEPT ![t.user].is_active = TRUE]
                      /\ activation_tokens' = activation_tokens \ {t}
                      /\ resp'.status = 200
      ]_vars

\* the second use of a token that activated the account
C25_Witness ==
    /\ req.handler = "activate_account"
    /\ resp.status = 400
    /\ req.data[1].email \in DOMAIN users
    /\ users[req.data[1].email].is_active
    /\ req.data[1].token \in 1 .. (nextToken - 1)
    /\ activation_tokens = {}

(***************************************************************************)
(* Password reset.                                                         *)
(***************************************************************************)
RequestResetStep == Idle /\ req'.handler = "request_password_reset_token"

RegisteredActive(email) == email \in DOMAIN users /\ users[email].is_active

ResetStep == Idle /\ req'.handler = "reset_password"

ResetUser == Lower(req'.data[1].email)

\* the stored reset token of the user is the submitted one and has not expired
ValidResetToken(t) == t.token = req'.data[1].token /\ ~(t.expires_at < now)

\* C30: reset_password changes a password only for an active user whose
\* stored, unexpired reset token is the submitted one, and then deletes the
\* token; for an active user with another or an expired token it answers
\* 400, leaves the password and deletes the stored token, so that the token
\* that was valid is refused with 400 afterwards.
C30_ResetNeedsTheStoredToken ==
    [][ /\ \A new \in password_reset_tokens' \ password_reset_tokens :
              new.token \notin 1 .. (nextToken - 1) /\ new.token < nextToken'
        /\ \A u \in DOMAIN users :
              users'[u].password # users[u].password
                  => /\ ResetStep
                     /\ ResetUser = u
                     /\ users[u].is_active
                     /\ \E t \in password_reset_tokens : t.user = u /\ ValidResetToken(t)
        /\ ResetStep =>
              IF ~RegisteredActive(ResetUser)
              THEN resp'.status = 400 /\ UNCHANGED accountVars
              ELSE IF \A t \in password_reset_tokens : t.user # ResetUser
              THEN resp'.status = 400 /\ UNCHANGED accountVars
              ELSE \A t \in password_reset_tokens :
                     t.user = ResetUser =>
                         /\ password_reset_tokens' = password_reset_tokens \ {t}
                         /\ IF ValidResetToken(t)
                            THEN /\ resp'.status = 200
                                 /\ users' =
                                       [users EXCEPT ![ResetUser].password =
                                           hash_password(req'.data[1].password)]
                            ELSE /\ resp'.status = 400
                                 /\ users' = users
      ]_vars

\* the token that was valid is refused after a failed attempt deleted it
C30_Witness ==
    /\ req.handler = "reset_password"
    /\ resp.status = 400
    /\ nextToken = 3
    /\ req.data[1].token = 2
    /\ req.data[1].email = "a"
    /\ req.data[1].password = "q"
    /\ "a" \in DOMAIN users
    /\ users["a"].is_active
    /\ users["a"].password = hash_password("p")
    /\ password_reset_tokens = {}
    /\ now = 0

\* the listing request being served, once it has its response
ListingAnswered ==
    /\ ListingSlot \in DOMAIN inflight
    /\ inflight[ListingSlot].handler = "get_movie_list"
    /\ inflight[ListingSlot].pc = "done"

\* C27: a listing that ends in 200 never carries an empty movies list, nor
\* fewer movies than min(per_page, total_items - (page - 1) * per_page) for the
\* total_items it reports, even when a delete_movie of another request commits
\* between its count query, its page-identifier query and its re-fetch.
C27_ListingFullDespiteDelete ==
    (ListingAnswered /\ inflight[ListingSlot].status = 200) =>
        LET r == inflight[ListingSlot]
        IN  /\ r.movies # <<>>
            /\ Len(r.movies) >=
                  Min(r.per_page, r.total_items - (r.page - 1) * r.per_page)

\* the container lookup of a favourites handler found two rows
LookupFoundTwo ==
    \/ /\ resp.handler \in {"get_favourites", "remove_from_favourites"}
       /\ resp.status = 500
    \/ \E slot \in DOMAIN inflight :
          /\ inflight[slot].handler = "add_to_favourites"
          /\ inflight[slot].pc = "done"
          /\ inflight[slot].status = 500
          /\ inflight[slot].detail = "Internal Server Error"

\* C28: every user has at most one favourites container in every reachable
\* state, also when two add_to_favourites requests of a user without a
\* container interleave; hence the container lookup of add_to_favourites,
\* get_favourites and remove_from_favourites never finds two rows.
C28_OneContainerPerUser ==
    /\ \A u \in RegisteredUsers : Cardinality(favourites_of(FavouritesDb, u)) <= 1
    /\ ~LookupFoundTwo

\* the movies the comments, ratings, reactions and favourites links point at
ReferredMovies ==
    {r.movie_id : r \in ratings} \cup {r.movie_id : r \in reactions}
    \cup {comments[k].movie_id : k \in DOMAIN comments}
    \cup {l.movie_id : l \in favourites_movies}

\* C29: in every reachable state every comment, rating, reaction and
\* favourites entry refers to a movie that is still stored: no sequence of
\* create, toggle, comment, favourite and delete_movie operations leaves an
\* entry that points at a deleted movie.
C29_EntriesReferToStoredMovies == ReferredMovies \subseteq DOMAIN movies

\* delete_movie was asked to remove a movie that a rating, a comment and a
\* favourites link refer to
C29_Witness ==
    /\ req.handler = "delete_movie"
    /\ resp.handler = "delete_movie"
    /\ resp.status = 500
    /\ \E r \in ratings : r.movie_id = req.movie_id
    /\ \E k \in DOMAIN comments : comments[k].movie_id = req.movie_id
    /\ \E l \in favourites_movies : l.movie_id = req.movie_id

====
